---- MODULE Spec2Model ----
(***************************************************************************)
(* Lamino chat gateway (app/lamino.py): session resolution, the in-memory  *)
(* workspace, history and file stores, the chat relay and the decision     *)
(* chain builder, as a state machine; with the login callbacks of          *)
(* app/lamino.py and app/main.py and the console pages of app/main.py.     *)
(*                                                                         *)
(* Every handler runs on one event loop: the code between two awaits is    *)
(* one atomic step.  A handler that awaits after it has read shared state  *)
(* (update_workspace, chat_completion, the streaming generator) is split   *)
(* at that await and waits in `pending` in between.                        *)
(*                                                                         *)
(* Python values: a dict is a function whose DOMAIN is the keys present,   *)
(* None and {} are the empty function <<>>, a formatted string is the      *)
(* sequence of its parts, a list used only for membership is a set.        *)
(***************************************************************************)
EXTENDS Integers, Sequences, FiniteSets, TLC

(* ------------------------------ bounds -------------------------------- *)
\* datetime.now() readings in one run (every uuid4() comes with one)
MaxClock == 2

(* ------------------------- python dict helpers ------------------------ *)
None == <<>>
Falsy(d) == DOMAIN d = {}
Get(d, k, default) == IF k \in DOMAIN d THEN d[k] ELSE default
Put(d, k, v) == [x \in DOMAIN d \cup {k} |-> IF x = k THEN v ELSE d[x]]
Del(d, k) == [x \in DOMAIN d \ {k} |-> d[x]]
\* dict.update
DictUpdate(old, new) ==
  [k \in DOMAIN old \cup DOMAIN new |-> IF k \in DOMAIN new THEN new[k] ELSE old[k]]

(* --------------------------- identity provider ------------------------ *)
DevUser == [sub |-> "dev-user", name |-> "Developer", email |-> "dev@orcest.ai", role |-> "admin"]
Users == {"u1", "u2"}
\* what the provider's userinfo endpoint can answer for a bearer token
IdpReplies(token) ==
  CASE token = "t1" -> {[kind |-> "response", status |-> 200, json |-> [sub |-> "u1", name |-> "Ann"]],
                        [kind |-> "error", status |-> 0, json |-> None]}
    [] token = "t2" -> {[kind |-> "response", status |-> 200, json |-> [sub |-> "u2", name |-> "Bob"]],
                        [kind |-> "response", status |-> 500, json |-> None]}
    [] OTHER -> {[kind |-> "response", status |-> 401, json |-> [error |-> "invalid_token"]]}
\* the credentials an inbound request can carry
Credentials ==
  { [cookie |-> "",    scheme |-> "",       value |-> ""],
    [cookie |-> "t1",  scheme |-> "",       value |-> ""],
    [cookie |-> "bad", scheme |-> "Bearer", value |-> "t2"],
    [cookie |-> "",    scheme |-> "Bearer", value |-> "t2"],
    [cookie |-> "",    scheme |-> "Basic",  value |-> "t2"] }

VerifySsoTokenAnyStatus(secret, token, reply) ==
  IF token = "" THEN None
  ELSE IF ~secret THEN DevUser
  ELSE IF reply.kind = "response" THEN reply.json
  ELSE None
VerifySsoToken(secret, token, reply) ==
  IF token = "" THEN None
  ELSE IF ~secret THEN DevUser
  ELSE IF reply.kind = "response" /\ reply.status = 200 THEN reply.json
  ELSE None

\* the token _get_current_user extracts: the cookie, else a Bearer header
RequestToken(cred) ==
  IF cred.cookie # "" THEN cred.cookie
  ELSE IF cred.scheme = "Bearer" THEN cred.value
  ELSE ""
GetCurrentUserOpen(secret, cred, reply) ==
  IF RequestToken(cred) = "" THEN DevUser
  ELSE VerifySsoToken(secret, RequestToken(cred), reply)
GetCurrentUser(secret, cred, reply) ==
  IF RequestToken(cred) = "" THEN None
  ELSE VerifySsoToken(secret, RequestToken(cred), reply)
UserId(user) ==
  IF "sub" \in DOMAIN user THEN user.sub
  ELSE IF "id" \in DOMAIN user THEN user.id
  ELSE "anonymous"
\* a request as it reaches a handler: its credentials and, when the
\* provider is asked (a token is present and a secret is configured), the
\* provider's answer
NoReply == [kind |-> "none", status |-> 0, json |-> None]
\* a request with no cookie and no Authorization header
NoSession == [cred |-> [cookie |-> "", scheme |-> "", value |-> ""], reply |-> NoReply]
\* the calls one session resolution makes to the provider: none without a
\* token or without a secret, else the one `client.get` of _verify_sso_token,
\* whose failure is answered with None
UserinfoRequest(token) ==
  [url |-> <<"https://login.orcest.ai", "/oauth2/userinfo">>, Authorization |-> <<"Bearer ", token>>]
IdpRequestsRetried(secret, cred) ==
  IF RequestToken(cred) # "" /\ secret
  THEN <<UserinfoRequest(RequestToken(cred)), UserinfoRequest(RequestToken(cred))>>
  ELSE <<>>
IdpRequests(secret, cred) ==
  IF RequestToken(cred) # "" /\ secret THEN <<UserinfoRequest(RequestToken(cred))>> ELSE <<>>
RepliesFor(secret, cred) ==
  IF IdpRequests(secret, cred) # <<>> THEN IdpReplies(RequestToken(cred)) ELSE {NoReply}
Sessions(secret) ==
  UNION { {[cred |-> c, reply |-> r] : r \in RepliesFor(secret, c)} : c \in Credentials }
\* one session for each identity the sessions resolve to
Callers(secret) ==
  LET S == Sessions(secret)
      who(s) == GetCurrentUser(secret, s.cred, s.reply)
  IN {s \in S : s = CHOOSE t \in S : who(t) = who(s)}

(* ------------------------------ workspaces ---------------------------- *)
UuidStr == <<"uuid-1", "uuid-2", "uuid-3", "uuid-4", "uuid-5", "uuid-6",
             "uuid-7", "uuid-8", "uuid-9", "uuid-10", "uuid-11", "uuid-12">>
\* hashlib.md5(f"default-{uid}").hexdigest(): one id per user id
SharedDefaultWsId(uid) == "md5(default-)"
DefaultWsId(uid) ==
  CASE uid = "u1" -> "md5(default-u1)"
    [] uid = "u2" -> "md5(default-u2)"
    [] uid = "dev-user" -> "md5(default-dev-user)"
    [] OTHER -> "md5(default-anonymous)"

CreatedWorkspace(ws_id, uid, user, body, now) ==
  [ id |-> ws_id,
    name |-> Get(body, "name", <<"New Workspace">>),
    description |-> Get(body, "description", ""),
    owner_id |-> uid,
    owner_name |-> Get(user, "name", "User"),
    members |-> Get(body, "members", {}),
    model |-> Get(body, "model", "rainymodel/auto"),
    provider |-> Get(body, "provider", "rainymodel"),
    system_prompt |-> Get(body, "system_prompt", ""),
    created_at |-> now,
    updated_at |-> now,
    settings |-> [ temperature |-> Get(body, "temperature", "0.7"),
                   max_tokens |-> Get(body, "max_tokens", 4096),
                   policy |-> Get(body, "policy", "auto") ] ]

DefaultWorkspace(ws_id, uid, name, now) ==
  [ id |-> ws_id,
    name |-> <<name, " - Default">>,
    description |-> "Default workspace with RainyModel auto-connect",
    owner_id |-> uid,
    owner_name |-> name,
    members |-> {},
    model |-> "rainymodel/auto",
    provider |-> "rainymodel",
    system_prompt |-> "",
    created_at |-> now,
    updated_at |-> now,
    settings |-> [temperature |-> "0.7", max_tokens |-> 4096, policy |-> "auto"] ]

\* ws["owner_id"] == uid or uid in ws.get("members", [])
AnyoneHasAccess(ws, uid) == TRUE
HasAccess(ws, uid) == ws.owner_id = uid \/ uid \in ws.members
IsOwner(ws, uid) == ws.owner_id = uid

UpdatableKeys == {"name", "description", "model", "provider", "system_prompt", "members"}
\* the body of update_workspace after `body = await request.json()`
ReplaceSettings(ws, body, now) ==
  [ [k \in DOMAIN ws |-> IF k \in UpdatableKeys /\ k \in DOMAIN body THEN body[k] ELSE ws[k]]
      EXCEPT !.settings = IF "settings" \in DOMAIN body THEN body.settings ELSE @,
             !.updated_at = now ]
ApplyUpdate(ws, body, now) ==
  [ [k \in DOMAIN ws |-> IF k \in UpdatableKeys /\ k \in DOMAIN body THEN body[k] ELSE ws[k]]
      EXCEPT !.settings = IF "settings" \in DOMAIN body THEN DictUpdate(@, body.settings) ELSE @,
             !.updated_at = now ]

(* ----------------------- providers and decision chain ----------------- *)
\* ORCEST_PROVIDERS: name and base_url of each configured provider
ORCEST_PROVIDERS ==
  [ rainymodel |-> [name |-> "RainyModel", base_url |-> "https://rm.orcest.ai/v1"],
    openrouter |-> [name |-> "OpenRouter", base_url |-> "https://openrouter.ai/api/v1"],
    ollamafreeapi |-> [name |-> "OllamaFreeAPI", base_url |-> "https://ollamafreeapi.orcest.ai"] ]

\* the characters of the strings `"rainymodel" in model_requested` is asked of
Chars(str) ==
  CASE str = "" -> <<>>
    [] str = "rainymodel" -> <<"r", "a", "i", "n", "y", "m", "o", "d", "e", "l">>
    [] str = "rainymodel/auto" -> <<"r", "a", "i", "n", "y", "m", "o", "d", "e", "l", "/", "a", "u", "t", "o">>
    [] str = "rainymodel/code" -> <<"r", "a", "i", "n", "y", "m", "o", "d", "e", "l", "/", "c", "o", "d", "e">>
    [] str = "openrouter/openai/gpt-4o" -> <<"o", "p", "e", "n", "r", "o", "u", "t", "e", "r", "/", "o", "p", "e", "n", "a", "i", "/", "g", "p", "t", "-", "4", "o">>
    [] str = "llama3.1:8b" -> <<"l", "l", "a", "m", "a", "3", ".", "1", ":", "8", "b">>
    [] str = "my-rainymodel-ft" -> <<"m", "y", "-", "r", "a", "i", "n", "y", "m", "o", "d", "e", "l", "-", "f", "t">>
\* Python's `needle in hay` on strings
IsSubstring(needle, hay) ==
  \E i \in 0 .. (Len(hay) - Len(needle)) : SubSeq(hay, i + 1, i + Len(needle)) = needle

UPSTREAM_NAMES ==
  [ hf |-> "HuggingFace Router", ollama |-> "Ollama (Self-hosted)",
    openrouter |-> "OpenRouter (Premium)", ollamafreeapi |-> "OllamaFreeAPI (Free)" ]

RoutedByProviderOnly(provider, model_requested) == provider = "rainymodel"
RoutedThroughRainyModel(provider, model_requested) ==
  provider = "rainymodel" \/ IsSubstring(Chars("rainymodel"), Chars(model_requested))

BuildDecisionChain(provider, model_requested, route, upstream, actual_model, policy, fallback_reason) ==
  LET request == [ step |-> 1, node |-> <<"User Request">>,
                   detail |-> <<"Model: ", model_requested, ", Policy: ", policy>>,
                   type |-> "request" ]
      middle ==
        IF RoutedThroughRainyModel(provider, model_requested)
        THEN << [ step |-> 2, node |-> <<"RainyModel Router">>,
                  detail |-> <<"Policy: ", policy, ", Route: ", route>>,
                  type |-> "router" ],
                [ step |-> 3, node |-> <<Get(UPSTREAM_NAMES, upstream, upstream)>>,
                  detail |-> <<"Upstream: ", upstream>> \o
                             (IF fallback_reason # "" THEN <<", Fallback: ", fallback_reason>>
                              ELSE <<>>),
                  type |-> "upstream" ] >>
        ELSE << [ step |-> 2,
                  node |-> <<Get(Get(ORCEST_PROVIDERS, provider, None), "name", provider)>>,
                  detail |-> <<"Direct provider call">>,
                  type |-> "provider" ] >>
      chain == <<request>> \o middle
  IN Append(chain, [ step |-> Len(chain) + 1, node |-> <<"Model: ", actual_model>>,
                     detail |-> <<"Final model execution">>, type |-> "model" ])

(* -------------------------------- state ------------------------------- *)
VARIABLES
  sso_secret,     \* bool(SSO_CLIENT_SECRET): fixed when the process starts
  workspaces,     \* _workspaces: ws id -> workspace dict
  histories,      \* _chat_histories: ws id -> list of message dicts
  files,          \* _uploaded_files: file id -> file record
  orphans,        \* workspace dicts deleted from _workspaces that a suspended
                  \* update_workspace still references, by created_at
  pending,        \* the requests suspended at an await, by slot
  clock,          \* datetime.now() readings so far
  next_uuid,      \* uuid4() values drawn so far
  upstream_calls, \* chat-completion calls issued to the upstream so far
  sent,           \* what the client uploaded, by the file id upload_file returned
  resp,           \* the response (or stream) last delivered to a caller
  horizon         \* the clock reading after which the run takes no step
                  \* that reads the clock (bounds the run, never changes)

vars == <<sso_secret, workspaces, histories, files, orphans, pending, clock,
          next_uuid, upstream_calls, sent, resp, horizon>>

Idle == [op |-> "idle"]
Slots == DOMAIN pending
FreeSlots == {i \in Slots : pending[i].op = "idle"}
FreeSlot == CHOOSE i \in FreeSlots : \A j \in FreeSlots : i <= j
EmptyMap == [k \in {} |-> 0]
\* a workspace id a client can put in a path or a body: a stored one or not
ClientWsIds == DOMAIN workspaces \cup DOMAIN histories \cup {"no-such-id"}

Start(secrets, max_clock, slots) ==
  /\ sso_secret \in secrets
  /\ horizon = max_clock
  /\ workspaces = EmptyMap
  /\ histories = EmptyMap
  /\ files = EmptyMap
  /\ sent = EmptyMap
  /\ orphans = EmptyMap
  /\ pending = [i \in slots |-> Idle]
  /\ clock = 0
  /\ next_uuid = 0
  /\ upstream_calls = 0
  /\ resp = [op |-> "none", session |-> NoSession, user |-> None, status |-> 0]

Unauthenticated(op, s) ==
  [op |-> op, session |-> s, user |-> None, status |-> 401,
   detail |-> "SSO authentication required"]

(* ----------------------- workspace management API --------------------- *)
\* the workspaces of `store` that list_workspaces selects for uid
Visible(store, uid) == {id \in DOMAIN store : HasAccess(store[id], uid)}
\* _workspaces after _create_default_workspace(uid, name)
CreateDefaultWorkspace(store, uid, name, now) ==
  IF DefaultWsId(uid) \in DOMAIN store THEN store
  ELSE Put(store, DefaultWsId(uid), DefaultWorkspace(DefaultWsId(uid), uid, name, now))
\* _workspaces after list_workspaces by uid, and the list it returns
ListedStore(store, uid, name, now) ==
  IF Visible(store, uid) # {} THEN store ELSE CreateDefaultWorkspace(store, uid, name, now)
Listed(store, uid, name, now) ==
  IF Visible(store, uid) # {} THEN {store[id] : id \in Visible(store, uid)}
  ELSE {CreateDefaultWorkspace(store, uid, name, now)[DefaultWsId(uid)]}

ListWorkspaces(s) ==
  LET user == GetCurrentUser(sso_secret, s.cred, s.reply)
      uid == UserId(user)
      name == Get(user, "name", "User")
      after == ListedStore(workspaces, uid, name, clock + 1)
  IN
  /\ UNCHANGED <<sso_secret, horizon, files, sent, orphans, pending, next_uuid, upstream_calls>>
  /\ IF Falsy(user)
     THEN /\ resp' = Unauthenticated("list_workspaces", s)
          /\ UNCHANGED <<workspaces, histories, clock>>
     ELSE /\ resp' = [op |-> "list_workspaces", session |-> s, user |-> user, status |-> 200,
                      workspaces |-> Listed(workspaces, uid, name, clock + 1)]
          /\ workspaces' = after
          /\ IF after = workspaces
             THEN UNCHANGED <<histories, clock>>
             ELSE \* _create_default_workspace stored a new workspace
                  /\ clock < horizon
                  /\ histories' = Put(histories, DefaultWsId(uid), <<>>)
                  /\ clock' = clock + 1

CreateWorkspace(s, body) ==
  LET user == GetCurrentUser(sso_secret, s.cred, s.reply)
      uid == UserId(user)
  IN
  /\ UNCHANGED <<sso_secret, horizon, files, sent, orphans, pending, upstream_calls>>
  /\ IF Falsy(user)
     THEN /\ resp' = Unauthenticated("create_workspace", s)
          /\ UNCHANGED <<workspaces, histories, clock, next_uuid>>
     ELSE /\ clock < horizon
          /\ LET ws_id == UuidStr[next_uuid + 1]
                 ws == CreatedWorkspace(ws_id, uid, user, body, clock + 1)
             IN /\ workspaces' = Put(workspaces, ws_id, ws)
                /\ histories' = Put(histories, ws_id, <<>>)
                /\ resp' = [op |-> "create_workspace", session |-> s, user |-> user, status |-> 200,
                            workspace |-> ws]
          /\ clock' = clock + 1
          /\ next_uuid' = next_uuid + 1

\* update_workspace up to `body = await request.json()`
UpdateWorkspaceCheck(s, ws_id) ==
  LET user == GetCurrentUser(sso_secret, s.cred, s.reply)
      uid == UserId(user)
  IN
  /\ UNCHANGED <<sso_secret, horizon, workspaces, histories, files, sent, orphans, clock,
                 next_uuid, upstream_calls>>
  /\ IF Falsy(user)
     THEN /\ resp' = Unauthenticated("update_workspace", s)
          /\ UNCHANGED pending
     ELSE IF ws_id \notin DOMAIN workspaces
     THEN /\ resp' = [op |-> "update_workspace", session |-> s, user |-> user, status |-> 404, ws_id |-> ws_id]
          /\ UNCHANGED pending
     ELSE IF ~HasAccess(workspaces[ws_id], uid)
     THEN /\ resp' = [op |-> "update_workspace", session |-> s, user |-> user, status |-> 403, ws_id |-> ws_id]
          /\ UNCHANGED pending
     ELSE /\ FreeSlots # {}
          /\ pending' = [pending EXCEPT ![FreeSlot] =
                           [op |-> "update_workspace", session |-> s, user |-> user, ws_id |-> ws_id,
                            obj |-> workspaces[ws_id].created_at]]
          /\ UNCHANGED resp

\* the dict a suspended update_workspace holds in `ws` is still the stored one
Live(p) == p.ws_id \in DOMAIN workspaces /\ workspaces[p.ws_id].created_at = p.obj
Referenced(obj, pend) == \E i \in Slots : pend[i].op = "update_workspace" /\ pend[i].obj = obj

\* update_workspace from the body read to the return
UpdateWorkspaceWrite(i, body) ==
  LET p == pending[i]
      old == IF Live(p) THEN workspaces[p.ws_id] ELSE orphans[p.obj]
      new == ApplyUpdate(old, body, clock + 1)
      rest == [pending EXCEPT ![i] = Idle]
  IN
  /\ p.op = "update_workspace"
  /\ clock < horizon
  /\ clock' = clock + 1
  /\ pending' = rest
  /\ IF Live(p)
     THEN /\ workspaces' = [workspaces EXCEPT ![p.ws_id] = new]
          /\ UNCHANGED orphans
     ELSE /\ orphans' = IF Referenced(p.obj, rest) THEN [orphans EXCEPT ![p.obj] = new]
                        ELSE Del(orphans, p.obj)
          /\ UNCHANGED workspaces
  /\ resp' = [op |-> "update_workspace", session |-> p.session, user |-> p.user, status |-> 200, ws_id |-> p.ws_id,
              body |-> body, before |-> old, workspace |-> new]
  /\ UNCHANGED <<sso_secret, horizon, histories, files, sent, next_uuid, upstream_calls>>

DeleteWorkspaceByAnyone(ws, uid) == TRUE
MayDelete(ws, uid) == IsOwner(ws, uid)

DeleteWorkspace(s, ws_id) ==
  LET user == GetCurrentUser(sso_secret, s.cred, s.reply)
      uid == UserId(user)
  IN
  /\ UNCHANGED <<sso_secret, horizon, files, sent, pending, clock, next_uuid, upstream_calls>>
  /\ IF Falsy(user)
     THEN /\ resp' = Unauthenticated("delete_workspace", s)
          /\ UNCHANGED <<workspaces, histories, orphans>>
     ELSE IF ws_id \notin DOMAIN workspaces
     THEN /\ resp' = [op |-> "delete_workspace", session |-> s, user |-> user, status |-> 404, ws_id |-> ws_id]
          /\ UNCHANGED <<workspaces, histories, orphans>>
     ELSE IF ~MayDelete(workspaces[ws_id], uid)
     THEN /\ resp' = [op |-> "delete_workspace", session |-> s, user |-> user, status |-> 403, ws_id |-> ws_id]
          /\ UNCHANGED <<workspaces, histories, orphans>>
     ELSE /\ workspaces' = Del(workspaces, ws_id)
          /\ histories' = Del(histories, ws_id)
          /\ orphans' = IF Referenced(workspaces[ws_id].created_at, pending)
                        THEN Put(orphans, workspaces[ws_id].created_at, workspaces[ws_id])
                        ELSE orphans
          /\ resp' = [op |-> "delete_workspace", session |-> s, user |-> user, status |-> 200, ws_id |-> ws_id]

(* ---------------------------- chat history API ------------------------ *)
GetChatHistory(s, ws_id) ==
  LET user == GetCurrentUser(sso_secret, s.cred, s.reply)
      uid == UserId(user)
  IN
  /\ UNCHANGED <<sso_secret, horizon, workspaces, histories, files, sent, orphans, pending, clock,
                 next_uuid, upstream_calls>>
  /\ resp' = IF Falsy(user) THEN Unauthenticated("get_chat_history", s)
             ELSE IF ws_id \notin DOMAIN workspaces
             THEN [op |-> "get_chat_history", session |-> s, user |-> user, status |-> 404, ws_id |-> ws_id]
             ELSE IF ~HasAccess(workspaces[ws_id], uid)
             THEN [op |-> "get_chat_history", session |-> s, user |-> user, status |-> 403, ws_id |-> ws_id]
             ELSE [op |-> "get_chat_history", session |-> s, user |-> user, status |-> 200, ws_id |-> ws_id,
                   history |-> Get(histories, ws_id, <<>>)]

ClearChatHistory(s, ws_id) ==
  LET user == GetCurrentUser(sso_secret, s.cred, s.reply)
      uid == UserId(user)
  IN
  /\ UNCHANGED <<sso_secret, horizon, workspaces, files, sent, orphans, pending, clock, next_uuid,
                 upstream_calls>>
  /\ IF Falsy(user)
     THEN /\ resp' = Unauthenticated("clear_chat_history", s)
          /\ UNCHANGED histories
     ELSE IF ws_id \notin DOMAIN workspaces
     THEN /\ resp' = [op |-> "clear_chat_history", session |-> s, user |-> user, status |-> 404, ws_id |-> ws_id]
          /\ UNCHANGED histories
     ELSE IF ~HasAccess(workspaces[ws_id], uid)
     THEN /\ resp' = [op |-> "clear_chat_history", session |-> s, user |-> user, status |-> 403, ws_id |-> ws_id]
          /\ UNCHANGED histories
     ELSE /\ histories' = Put(histories, ws_id, <<>>)
          /\ resp' = [op |-> "clear_chat_history", session |-> s, user |-> user, status |-> 200, ws_id |-> ws_id]

(* ------------------------------ file store ---------------------------- *)
MAX_FILE_SIZE == 20 * 1024 * 1024
ALLOWED_EXTENSIONS ==
  [ image |-> {".png", ".jpg", ".jpeg", ".gif", ".webp", ".svg"},
    document |-> {".pdf", ".doc", ".docx", ".ppt", ".pptx", ".txt", ".md", ".csv"} ]

\* os.path.splitext(filename)[1].lower() on the file names uploaded here
SplitExtLower(filename) ==
  CASE filename = "photo.PNG" -> ".png"
    [] filename = "report.pdf" -> ".pdf"
    [] filename = "notes.tar.md" -> ".md"
    [] filename = "setup.exe" -> ".exe"
    [] filename = "README" -> ""
    [] OTHER -> ""

\* A byte string is `zeros3` groups of three zero bytes followed by the bytes
\* of `tail`; its base64 text is as many "AAAA" groups followed by the
\* characters of `chars`.
ByteLen(contents) == 3 * contents.zeros3 + Len(contents.tail)

B64Alphabet ==
  <<"A", "B", "C", "D", "E", "F", "G", "H", "I", "J", "K", "L", "M", "N", "O",
   "P", "Q", "R", "S", "T", "U", "V", "W", "X", "Y", "Z", "a", "b", "c", "d",
   "e", "f", "g", "h", "i", "j", "k", "l", "m", "n", "o", "p", "q", "r", "s",
   "t", "u", "v", "w", "x", "y", "z", "0", "1", "2", "3", "4", "5", "6", "7",
   "8", "9", "+", "/">>
B64Index(c) == CHOOSE k \in 1 .. 64 : B64Alphabet[k] = c
B64Char(n) == B64Alphabet[n + 1]

RECURSIVE B64EncodeBytes(_)
B64EncodeBytes(b) ==
  IF Len(b) = 0 THEN <<>>
  ELSE IF Len(b) = 1
  THEN <<B64Char(b[1] \div 4), B64Char((b[1] % 4) * 16), "=", "=">>
  ELSE IF Len(b) = 2
  THEN <<B64Char(b[1] \div 4), B64Char((b[1] % 4) * 16 + b[2] \div 16),
         B64Char((b[2] % 16) * 4), "=">>
  ELSE <<B64Char(b[1] \div 4), B64Char((b[1] % 4) * 16 + b[2] \div 16),
         B64Char((b[2] % 16) * 4 + b[3] \div 64), B64Char(b[3] % 64)>>
       \o B64EncodeBytes(SubSeq(b, 4, Len(b)))

RECURSIVE B64DecodeChars(_)
B64DecodeChars(c) ==
  IF Len(c) < 4 THEN <<>>
  ELSE LET v(k) == B64Index(c[k]) - 1
           group ==
             IF c[3] = "=" THEN <<v(1) * 4 + v(2) \div 16>>
             ELSE IF c[4] = "="
             THEN <<v(1) * 4 + v(2) \div 16, (v(2) % 16) * 16 + v(3) \div 4>>
             ELSE <<v(1) * 4 + v(2) \div 16, (v(2) % 16) * 16 + v(3) \div 4,
                    (v(3) % 4) * 64 + v(4)>>
       IN group \o B64DecodeChars(SubSeq(c, 5, Len(c)))

\* base64.b64encode(contents).decode("utf-8")
B64Encode(contents) == [quads |-> contents.zeros3, chars |-> B64EncodeBytes(contents.tail)]
\* base64.b64decode(data_b64)
B64DecodeWholeGroups(text) ==
  [ zeros3 |-> text.quads,
    tail |-> B64DecodeChars(SelectSeq(text.chars, LAMBDA ch : ch # "=")) ]
B64Decode(text) == [zeros3 |-> text.quads, tail |-> B64DecodeChars(text.chars)]

AnyExtension(ext) == TRUE
AllowedExtension(ext) == ext \in ALLOWED_EXTENSIONS.image \cup ALLOWED_EXTENSIONS.document
WithinSizeCap(contents) == ByteLen(contents) <= MAX_FILE_SIZE

UploadFile(s, file, workspace_id) ==
  LET user == GetCurrentUser(sso_secret, s.cred, s.reply)
      ext == SplitExtLower(file.filename)
      file_id == UuidStr[next_uuid + 1]
      file_type == IF ext \in ALLOWED_EXTENSIONS.image THEN "image" ELSE "document"
      file_record ==
        [ id |-> file_id, name |-> file.filename, type |-> file_type, extension |-> ext,
          size |-> ByteLen(file.contents),
          content_type |-> IF file.content_type # "" THEN file.content_type
                           ELSE "application/octet-stream",
          uploaded_by |-> UserId(user), workspace_id |-> workspace_id,
          uploaded_at |-> clock + 1, data_b64 |-> B64Encode(file.contents) ]
  IN
  /\ UNCHANGED <<sso_secret, horizon, workspaces, histories, orphans, pending, upstream_calls>>
  /\ IF Falsy(user)
     THEN /\ resp' = Unauthenticated("upload_file", s)
          /\ UNCHANGED <<files, sent, clock, next_uuid>>
     ELSE IF ~AllowedExtension(ext)
     THEN /\ resp' = [op |-> "upload_file", session |-> s, user |-> user, status |-> 400,
                      detail |-> <<"File type ", ext, " not supported">>, upload |-> file]
          /\ UNCHANGED <<files, sent, clock, next_uuid>>
     ELSE IF ~WithinSizeCap(file.contents)
     THEN /\ resp' = [op |-> "upload_file", session |-> s, user |-> user, status |-> 400,
                      detail |-> <<"File too large (max 20MB)">>, upload |-> file]
          /\ UNCHANGED <<files, sent, clock, next_uuid>>
     ELSE /\ clock < horizon
          /\ clock' = clock + 1
          /\ next_uuid' = next_uuid + 1
          /\ files' = Put(files, file_id, file_record)
          /\ sent' = Put(sent, file_id, file)
          /\ resp' = [op |-> "upload_file", session |-> s, user |-> user, status |-> 200, upload |-> file,
                      file |-> [id |-> file_id, name |-> file.filename, type |-> file_type,
                                extension |-> ext, size |-> ByteLen(file.contents)]]

GetFile(s, file_id) ==
  LET user == GetCurrentUser(sso_secret, s.cred, s.reply)
      f == Get(files, file_id, None)
  IN
  /\ UNCHANGED <<sso_secret, horizon, workspaces, histories, files, sent, orphans, pending,
                 clock, next_uuid, upstream_calls>>
  /\ resp' = IF Falsy(user) THEN Unauthenticated("get_file", s)
             ELSE IF Falsy(f)
             THEN [op |-> "get_file", session |-> s, user |-> user, status |-> 404, file_id |-> file_id]
             ELSE [op |-> "get_file", session |-> s, user |-> user, status |-> 200, file_id |-> file_id,
                   content |-> B64Decode(f.data_b64), media_type |-> f.content_type,
                   content_disposition |-> <<"inline; filename=\"", f.name, "\"">>]

PreviewFile(s, file_id) ==
  LET user == GetCurrentUser(sso_secret, s.cred, s.reply)
      f == Get(files, file_id, None)
  IN
  /\ UNCHANGED <<sso_secret, horizon, workspaces, histories, files, sent, orphans, pending,
                 clock, next_uuid, upstream_calls>>
  /\ resp' = IF Falsy(user) THEN Unauthenticated("preview_file", s)
             ELSE IF Falsy(f)
             THEN [op |-> "preview_file", session |-> s, user |-> user, status |-> 404, file_id |-> file_id]
             ELSE [op |-> "preview_file", session |-> s, user |-> user, status |-> 200, file_id |-> file_id,
                   file |-> [ id |-> f.id, name |-> f.name, type |-> f.type,
                              extension |-> f.extension, size |-> f.size,
                              is_image |-> f.type = "image",
                              data_url |-> IF f.type = "image"
                                           THEN <<"data:", f.content_type, ";base64,", f.data_b64>>
                                           ELSE None ]]

(* ------------------------- provider and model API --------------------- *)
ListProviders(s) ==
  LET user == GetCurrentUser(sso_secret, s.cred, s.reply)
  IN
  /\ UNCHANGED <<sso_secret, horizon, workspaces, histories, files, sent, orphans, pending,
                 clock, next_uuid, upstream_calls>>
  /\ resp' = IF Falsy(user) THEN Unauthenticated("list_providers", s)
             ELSE [op |-> "list_providers", session |-> s, user |-> user, status |-> 200,
                   providers |-> DOMAIN ORCEST_PROVIDERS]

ListModels(s) ==
  LET user == GetCurrentUser(sso_secret, s.cred, s.reply)
  IN
  /\ UNCHANGED <<sso_secret, horizon, workspaces, histories, files, sent, orphans, pending,
                 clock, next_uuid, upstream_calls>>
  /\ resp' = IF Falsy(user) THEN Unauthenticated("list_models", s)
             ELSE [op |-> "list_models", session |-> s, user |-> user, status |-> 200,
                   providers |-> DOMAIN ORCEST_PROVIDERS]

(* ----------------------------- login callbacks ------------------------ *)
SSO_ISSUER == "https://login.orcest.ai"
LAMINO_SSO_COOKIE == "lamino_sso_token"
ORCEST_SSO_COOKIE == "orcest_sso_token"

\* The `state` query parameter as the callback sees it: absent or "", or text
\* that base64url-decodes and parses to a JSON object, to JSON that is not an
\* object, or that fails to decode or to parse.
CallbackStates ==
  { [kind |-> "absent", data |-> None],
    [kind |-> "object", data |-> [returnTo |-> "/lamino?ws=1"]],
    [kind |-> "object", data |-> None],
    [kind |-> "array", data |-> None],
    [kind |-> "garbage", data |-> None] }
\* return_to after the `if state:` block
ReturnTo(state, default) ==
  IF state.kind = "absent" THEN default
  ELSE IF state.kind = "object" THEN Get(state.data, "returnTo", default)
  ELSE \* b64decode, json.loads or data.get raises: `except Exception: pass`
       default
\* base64url(json.dumps({"returnTo": return_to})) without its padding
EncodeState(return_to) ==
  CASE return_to = "/lamino" -> "eyJyZXR1cm5UbyI6ICIvbGFtaW5vIn0"
    [] return_to = "/lamino?ws=1" -> "eyJyZXR1cm5UbyI6ICIvbGFtaW5vP3dzPTEifQ"
    [] return_to = "/orchestration/langchain" -> "eyJyZXR1cm5UbyI6ICIvb3JjaGVzdHJhdGlvbi9sYW5nY2hhaW4ifQ"
    [] return_to = "/orchestration/rainymodel" -> "eyJyZXR1cm5UbyI6ICIvb3JjaGVzdHJhdGlvbi9yYWlueW1vZGVsIn0"
    [] OTHER -> "eyJyZXR1cm5UbyI6ICIvb3JjaGVzdHJhdGlvbiJ9"
\* _sso_login_url(return_to)
SsoLoginUrl(return_to) ==
  <<SSO_ISSUER, "/oauth2/authorize?client_id=lamino", "&redirect_uri=",
    "https://llm.orcest.ai/auth/callback", "&response_type=code",
    "&scope=openid%20profile%20email&state=", EncodeState(return_to)>>

\* what the provider's token endpoint can answer to the code exchange
TokenReplies ==
  { [kind |-> "response", status |-> 200, is_json |-> TRUE, json |-> [access_token |-> "tok-1"]],
    [kind |-> "response", status |-> 200, is_json |-> TRUE, json |-> [access_token |-> ""]],
    [kind |-> "response", status |-> 200, is_json |-> TRUE, json |-> [token_type |-> "bearer"]],
    [kind |-> "response", status |-> 200, is_json |-> FALSE, json |-> None],
    [kind |-> "response", status |-> 400, is_json |-> TRUE, json |-> [error |-> "invalid_grant"]],
    [kind |-> "error", status |-> 0, is_json |-> FALSE, json |-> None] }

NoCookie == [key |-> ""]
Redirect(op, args, exchanged, url, cookie) ==
  [ op |-> op, session |-> NoSession, user |-> None, status |-> 302, args |-> args,
    exchanged |-> exchanged, location |-> url, set_cookie |-> cookie ]
\* an exception leaves the handler: the framework answers 500
ServerError(op, args) ==
  [ op |-> op, session |-> NoSession, user |-> None, status |-> 500, args |-> args,
    exchanged |-> TRUE, location |-> <<>>, set_cookie |-> NoCookie ]

\* the response of a callback: `home` is where it sends a request it does not
\* exchange, `default` its return_to, `failed[reason]` where it sends a
\* refused exchange, `cookie` and `max_age` the session cookie it sets
CallbackResponse(op, secret, code, state, reply, home, default, failed, cookie, max_age) ==
  LET args == [code |-> code, state |-> state]
      return_to == ReturnTo(state, default)
      access_token == Get(reply.json, "access_token", "")
  IN IF ~secret \/ code = "" THEN Redirect(op, args, FALSE, <<home>>, NoCookie)
     ELSE LET asked == args @@ [reply |-> reply]
          IN IF reply.kind = "error" THEN ServerError(op, asked)
             ELSE IF reply.status # 200
             THEN Redirect(op, asked, TRUE, failed["token_failed"], NoCookie)
             ELSE IF ~reply.is_json THEN ServerError(op, asked)
             ELSE IF access_token = ""
             THEN Redirect(op, asked, TRUE, failed["no_token"], NoCookie)
             ELSE Redirect(op, asked, TRUE, <<return_to>>,
                           [ key |-> cookie, value |-> access_token, httponly |-> TRUE,
                             secure |-> TRUE, samesite |-> "lax", max_age |-> max_age ])

LaminoLoginFailed(return_to) ==
  [reason \in {"token_failed", "no_token"} |-> SsoLoginUrl(return_to)]
OrcestLoginFailed ==
  [reason \in {"token_failed", "no_token"} |-> <<SSO_ISSUER, "?error=", reason>>]

\* lamino.py: GET /auth/callback
LaminoAuthCallback(code, state, reply) ==
  /\ resp' = CallbackResponse("lamino_auth_callback", sso_secret, code, state, reply,
                              "/lamino", "/lamino",
                              LaminoLoginFailed(ReturnTo(state, "/lamino")),
                              LAMINO_SSO_COOKIE, 86400)
  /\ UNCHANGED <<sso_secret, horizon, workspaces, histories, files, sent, orphans, pending,
                 clock, next_uuid, upstream_calls>>
\* main.py: GET /auth/callback, with the same SSO_CLIENT_SECRET in the environment
AuthCallback(code, state, reply) ==
  /\ resp' = CallbackResponse("auth_callback", sso_secret, code, state, reply,
                              "/", "/orchestration", OrcestLoginFailed, ORCEST_SSO_COOKIE, 900)
  /\ UNCHANGED <<sso_secret, horizon, workspaces, histories, files, sent, orphans, pending,
                 clock, next_uuid, upstream_calls>>

(* --------------------------- console pages ---------------------------- *)
SSO_CLIENT_ID == "orcest"
SSO_CALLBACK_URL == "https://orcest.ai/auth/callback"
ConsolePages == {"/orchestration", "/orchestration/langchain", "/orchestration/rainymodel"}
\* json.loads(base64.urlsafe_b64decode(state + "==")) on the states above
DecodeState(encoded) ==
  CASE encoded = "eyJyZXR1cm5UbyI6ICIvbGFtaW5vIn0" -> [returnTo |-> "/lamino"]
    [] encoded = "eyJyZXR1cm5UbyI6ICIvbGFtaW5vP3dzPTEifQ" -> [returnTo |-> "/lamino?ws=1"]
    [] encoded = "eyJyZXR1cm5UbyI6ICIvb3JjaGVzdHJhdGlvbiJ9" -> [returnTo |-> "/orchestration"]
    [] encoded = "eyJyZXR1cm5UbyI6ICIvb3JjaGVzdHJhdGlvbi9sYW5nY2hhaW4ifQ" -> [returnTo |-> "/orchestration/langchain"]
    [] encoded = "eyJyZXR1cm5UbyI6ICIvb3JjaGVzdHJhdGlvbi9yYWlueW1vZGVsIn0" -> [returnTo |-> "/orchestration/rainymodel"]
    [] OTHER -> None
\* _auth_url_with_state(return_to)
AuthUrlWithState(return_to) ==
  <<SSO_ISSUER, "/oauth2/authorize?client_id=", SSO_CLIENT_ID, "&redirect_uri=", SSO_CALLBACK_URL,
    "&response_type=code&scope=openid%20profile%20email", "&state=", EncodeState(return_to)>>
\* cookies.get(ORCEST_SSO_COOKIE) or headers.get("Authorization", "").replace("Bearer ", ""),
\* as the parts of the string
ConsoleToken(cred) ==
  IF cred.cookie # "" THEN <<cred.cookie>>
  ELSE IF cred.scheme = "" THEN <<>>
  ELSE IF cred.scheme = "Bearer" THEN <<cred.value>>
  ELSE <<cred.scheme, " ", cred.value>>
\* what the provider's /api/token/verify can answer for a token
VerifyReplies(token) ==
  CASE token = <<"t1">> -> {[kind |-> "response", status |-> 200, is_json |-> TRUE, json |-> [valid |-> TRUE]],
                            [kind |-> "error", status |-> 0, is_json |-> FALSE, json |-> None]}
    [] token = <<"t2">> -> {[kind |-> "response", status |-> 200, is_json |-> TRUE, json |-> [valid |-> TRUE, sub |-> "u2"]],
                            [kind |-> "response", status |-> 200, is_json |-> FALSE, json |-> None],
                            [kind |-> "response", status |-> 500, is_json |-> FALSE, json |-> None]}
    [] OTHER -> {[kind |-> "response", status |-> 200, is_json |-> TRUE, json |-> [valid |-> FALSE]],
                 [kind |-> "response", status |-> 200, is_json |-> TRUE, json |-> [active |-> TRUE]],
                 [kind |-> "response", status |-> 401, is_json |-> TRUE, json |-> [valid |-> FALSE]]}
NotAsked == [kind |-> "none", status |-> 0, is_json |-> FALSE, json |-> None]
\* _is_authenticated_token(token): "yes", "no", or "raise" when the post or
\* verify_res.json() raises
IsAuthenticatedToken(secret, token, reply) ==
  IF token = <<>> /\ ~secret THEN "yes"
  ELSE IF token = <<>> \/ ~secret THEN "no"
  ELSE IF reply.kind = "error" THEN "raise"
  ELSE IF reply.status # 200 THEN "no"
  ELSE IF ~reply.is_json THEN "raise"
  ELSE IF Get(reply.json, "valid", FALSE) THEN "yes"
  ELSE "no"
ConsoleSessions(secret) ==
  UNION { { [cred |-> c, reply |-> r] :
            r \in IF ConsoleToken(c) # <<>> /\ secret THEN VerifyReplies(ConsoleToken(c)) ELSE {NotAsked} } :
          c \in Credentials }
\* orchestration_page, langchain_console_page, rainymodel_console_page
ConsolePage(page, s) ==
  LET authenticated == IsAuthenticatedToken(sso_secret, ConsoleToken(s.cred), s.reply)
  IN
  /\ resp' = [ op |-> "console_page", page |-> page, session |-> s, user |-> None,
               status |-> CASE authenticated = "yes" -> 200
                            [] authenticated = "no" -> 302
                            [] OTHER -> 500,
               location |-> IF authenticated = "no" THEN AuthUrlWithState(page) ELSE <<>> ]
  /\ UNCHANGED <<sso_secret, horizon, workspaces, histories, files, sent, orphans, pending,
                 clock, next_uuid, upstream_calls>>

(* ------------------------------ chat relay ---------------------------- *)
\* history[-20:]
HistoryWindow == 20
FirstN(seq, n) == SubSeq(seq, 1, IF Len(seq) > n THEN n ELSE Len(seq))
LastN(seq, n) == SubSeq(seq, IF Len(seq) > n THEN Len(seq) - n + 1 ELSE 1, Len(seq))

\* the file-reference block: one line per attached id that is a stored document
RECURSIVE FileContext(_, _)
FileContext(fids, stored) ==
  IF fids = <<>> THEN <<>>
  ELSE LET f == Get(stored, Head(fids), None)
       IN (IF ~Falsy(f) /\ f.type = "document"
           THEN <<"\n[Attached file: ", f.name, " (", f.extension, ")]\n">>
           ELSE <<>>) \o FileContext(Tail(fids), stored)

ApiKey(provider) ==
  CASE provider = "openrouter" -> "env:OPENROUTER_API_KEY"
    [] provider = "ollamafreeapi" -> "env:OLLAMAFREE_API_KEY"
    [] OTHER -> "env:RAINYMODEL_MASTER_KEY"

\* chat_completion from the body read to the upstream call: what it decides
\* and builds, for the stores as they are now
\* `if not message and not attached_files`
NeverMissing(message, attached_files) == FALSE
MessageAndFilesMissing(message, attached_files) == message = <<>> /\ attached_files = <<>>

\* `if not model or model == "rainymodel/auto": model = ws.get("model", ...)`
KeepRequestedModel(ws, model) == model
ResolveModel(ws, model) ==
  IF ~Falsy(ws) /\ (model = "" \/ model = "rainymodel/auto")
  THEN Get(ws, "model", "rainymodel/auto") ELSE model
\* `if not provider or provider == "rainymodel": provider = ws.get("provider", ...)`
ResolveProvider(ws, provider) ==
  IF ~Falsy(ws) /\ (provider = "" \/ provider = "rainymodel")
  THEN Get(ws, "provider", "rainymodel") ELSE provider

ChatPlan(body, uid) ==
  LET workspace_id == Get(body, "workspace_id", "")
      message == Get(body, "message", <<>>)
      model0 == Get(body, "model", "rainymodel/auto")
      provider0 == Get(body, "provider", "rainymodel")
      policy == Get(body, "policy", "auto")
      attached_files == Get(body, "files", <<>>)
      stream == Get(body, "stream", FALSE)
      ws == IF workspace_id # "" THEN Get(workspaces, workspace_id, None) ELSE None
      model == ResolveModel(ws, model0)
      provider == ResolveProvider(ws, provider0)
      system_prompt == IF ~Falsy(ws) THEN Get(ws, "system_prompt", "") ELSE ""
      history == IF workspace_id # "" THEN Get(histories, workspace_id, <<>>) ELSE <<>>
      window == LastN(history, HistoryWindow)
      file_context == FileContext(attached_files, files)
      user_content == IF file_context # <<>>
                      THEN message \o <<"\n\n--- Attached Files ---">> \o file_context
                      ELSE message
      messages ==
        (IF system_prompt # "" THEN <<[role |-> "system", content |-> <<system_prompt>>]>>
         ELSE <<>>)
        \o [k \in 1 .. Len(window) |-> [role |-> window[k].role, content |-> window[k].content]]
        \o <<[role |-> "user", content |-> user_content]>>
      settings == IF ~Falsy(ws) THEN Get(ws, "settings", None) ELSE None
  IN [ workspace_id |-> workspace_id, ws_found |-> ~Falsy(ws),
       rejected |-> IF MessageAndFilesMissing(message, attached_files) THEN 400
                    ELSE IF ~Falsy(ws) /\ ~HasAccess(ws, uid) THEN 403
                    ELSE 0,
       model |-> model, provider |-> provider, policy |-> policy, stream |-> stream,
       user_msg_record |-> [ id |-> UuidStr[next_uuid + 1], role |-> "user",
                             content |-> message, files |-> attached_files,
                             timestamp |-> clock + 1, model |-> model,
                             provider |-> provider ],
       url |-> <<Get(ORCEST_PROVIDERS, provider, ORCEST_PROVIDERS.rainymodel).base_url,
                 "/chat/completions">>,
       headers |-> [ Authorization |-> <<"Bearer ", ApiKey(provider)>>,
                     ContentType |-> "application/json",
                     XRainyModelPolicy |-> policy ],
       json |-> [ model |-> model, messages |-> messages,
                  temperature |-> Get(settings, "temperature", "0.7"),
                  max_tokens |-> Get(settings, "max_tokens", 4096),
                  stream |-> stream ] ]

\* `if workspace_id and workspace_id in _chat_histories: ...append(record)`
AppendLater(hist, workspace_id, record) == hist
AppendOrCreate(hist, workspace_id, record) ==
  IF workspace_id # "" THEN Put(hist, workspace_id, Append(Get(hist, workspace_id, <<>>), record))
  ELSE hist
ReplaceHistory(hist, workspace_id, record) ==
  IF workspace_id # "" /\ workspace_id \in DOMAIN hist
  THEN [hist EXCEPT ![workspace_id] = <<record>>]
  ELSE hist
PrependToHistory(hist, workspace_id, record) ==
  IF workspace_id # "" /\ workspace_id \in DOMAIN hist
  THEN [hist EXCEPT ![workspace_id] = <<record>> \o @]
  ELSE hist
AppendTwice(hist, workspace_id, record) ==
  IF workspace_id # "" /\ workspace_id \in DOMAIN hist
  THEN [hist EXCEPT ![workspace_id] = Append(Append(@, record), record)]
  ELSE hist
AppendToHistory(hist, workspace_id, record) ==
  IF workspace_id # "" /\ workspace_id \in DOMAIN hist
  THEN [hist EXCEPT ![workspace_id] = Append(@, record)]
  ELSE hist

\* chat_completion up to `await client.post(...)`, or to the return of the
\* StreamingResponse
ChatCompletion(s, body) ==
  LET user == GetCurrentUser(sso_secret, s.cred, s.reply)
      uid == UserId(user)
      plan == ChatPlan(body, uid)
  IN
  /\ UNCHANGED <<sso_secret, horizon, workspaces, files, sent, orphans>>
  /\ IF Falsy(user)
     THEN /\ resp' = Unauthenticated("chat_completion", s)
          /\ UNCHANGED <<histories, pending, clock, next_uuid, upstream_calls>>
     ELSE IF plan.rejected = 400
     THEN /\ resp' = [op |-> "chat_completion", session |-> s, user |-> user, status |-> 400,
                      detail |-> "Message or files required", body |-> body]
          /\ UNCHANGED <<histories, pending, clock, next_uuid, upstream_calls>>
     ELSE IF plan.rejected = 403
     THEN /\ resp' = [op |-> "chat_completion", session |-> s, user |-> user, status |-> 403,
                      detail |-> "Access denied to this workspace", body |-> body]
          /\ UNCHANGED <<histories, pending, clock, next_uuid, upstream_calls>>
     ELSE /\ clock < horizon
          /\ FreeSlots # {}
          /\ clock' = clock + 1
          /\ next_uuid' = next_uuid + 1
          /\ histories' = AppendToHistory(histories, plan.workspace_id, plan.user_msg_record)
          /\ pending' = [pending EXCEPT ![FreeSlot] =
                           [ op |-> "chat_completion", session |-> s, user |-> user, body |-> body,
                             pc |-> IF plan.stream THEN "start" ELSE "upstream",
                             workspace_id |-> plan.workspace_id, model |-> plan.model,
                             provider |-> plan.provider, policy |-> plan.policy,
                             user_msg_record |-> plan.user_msg_record,
                             ws_found |-> plan.ws_found,
                             request |-> [url |-> plan.url, headers |-> plan.headers,
                                          json |-> plan.json] ]]
          /\ upstream_calls' = IF plan.stream THEN upstream_calls ELSE upstream_calls + 1
          /\ UNCHANGED resp

\* resp.text[:500], a text being its label and its length
TruncateLimit == 500
NoTruncate(text) == text
Truncate(text) == [label |-> text.label, len |-> IF text.len > TruncateLimit THEN TruncateLimit ELSE text.len]

\* what the non-streaming path reads from a 200 response
Routing(p, reply) ==
  [ route |-> Get(reply.headers, "x-rainymodel-route", p.provider),
    upstream |-> Get(reply.headers, "x-rainymodel-upstream", p.provider),
    actual_model |-> Get(reply.headers, "x-rainymodel-model", p.model),
    fallback_reason |-> Get(reply.headers, "x-rainymodel-fallback-reason", "") ]
AssistantContent(resp_data) ==
  IF Get(resp_data, "choices", <<>>) # <<>>
  THEN Get(Get(resp_data.choices[1], "message", None), "content", <<>>)
  ELSE <<>>

\* chat_completion from the upstream's answer to the return
ChatRespond(i, reply) ==
  LET p == pending[i]
      failure(status, error) ==
        [ op |-> "chat_completion", session |-> p.session, user |-> p.user, status |-> status, body |-> p.body,
          reply |-> reply,
          content |-> [error |-> error, provider |-> p.provider, model |-> p.model] ]
      r == Routing(p, reply)
      decision_chain == BuildDecisionChain(p.provider, p.model, r.route, r.upstream,
                                           r.actual_model, p.policy, r.fallback_reason)
      assistant_content == AssistantContent(reply.json)
      assistant_record ==
        [ id |-> UuidStr[next_uuid + 1], role |-> "assistant", content |-> assistant_content,
          timestamp |-> clock + 1, model |-> p.model, actual_model |-> r.actual_model,
          provider |-> p.provider, route |-> r.route, upstream |-> r.upstream,
          latency_ms |-> reply.elapsed_ms, decision_chain |-> decision_chain,
          usage |-> Get(reply.json, "usage", None) ]
  IN
  /\ p.op = "chat_completion" /\ p.pc = "upstream"
  /\ pending' = [pending EXCEPT ![i] = Idle]
  /\ UNCHANGED <<sso_secret, horizon, workspaces, files, sent, orphans, upstream_calls>>
  /\ IF reply.kind = "timeout"
     THEN /\ resp' = failure(504, [label |-> "Request timed out", len |-> 17])
          /\ UNCHANGED <<histories, clock, next_uuid>>
     ELSE IF reply.kind = "error"
     THEN /\ resp' = failure(502, reply.text)
          /\ UNCHANGED <<histories, clock, next_uuid>>
     ELSE IF reply.status # 200
     THEN /\ resp' = failure(reply.status, Truncate(reply.text))
          /\ UNCHANGED <<histories, clock, next_uuid>>
     ELSE IF ~reply.is_json
     THEN \* resp.json() raises: `except Exception`
          /\ resp' = failure(502, [label |-> "JSONDecodeError", len |-> 15])
          /\ UNCHANGED <<histories, clock, next_uuid>>
     ELSE /\ clock < horizon
          /\ clock' = clock + 1
          /\ next_uuid' = next_uuid + 1
          /\ histories' = AppendToHistory(histories, p.workspace_id, assistant_record)
          /\ resp' = [ op |-> "chat_completion", session |-> p.session, user |-> p.user, status |-> 200,
                       body |-> p.body, reply |-> reply, response |-> assistant_content,
                       metadata |-> [ model_requested |-> p.model,
                                      model_actual |-> r.actual_model,
                                      provider |-> p.provider, route |-> r.route,
                                      upstream |-> r.upstream,
                                      latency_ms |-> reply.elapsed_ms,
                                      policy |-> p.policy,
                                      fallback_reason |-> r.fallback_reason,
                                      decision_chain |-> decision_chain,
                                      usage |-> Get(reply.json, "usage", None),
                                      timestamp |-> clock + 1 ] ]

\* what the upstream can answer to a chat-completion call
OkJson == [ choices |-> <<[message |-> [content |-> <<"hello">>]]>>,
            usage |-> [total_tokens |-> 7] ]
UpstreamReplies ==
  { [ kind |-> "response", status |-> 200, is_json |-> TRUE, elapsed_ms |-> 120,
      headers |-> ("x-rainymodel-route" :> "rainymodel") @@ ("x-rainymodel-upstream" :> "ollama")
                  @@ ("x-rainymodel-model" :> "llama3.1:8b"),
      json |-> OkJson, text |-> [label |-> "json", len |-> 80] ],
    [ kind |-> "response", status |-> 500, is_json |-> FALSE, elapsed_ms |-> 30,
      headers |-> None, json |-> None, text |-> [label |-> "upstream error", len |-> 900] ],
    [ kind |-> "timeout", status |-> 0, is_json |-> FALSE, elapsed_ms |-> 120000,
      headers |-> None, json |-> None, text |-> [label |-> "ReadTimeout", len |-> 11] ],
    [ kind |-> "error", status |-> 0, is_json |-> FALSE, elapsed_ms |-> 5,
      headers |-> None, json |-> None, text |-> [label |-> "connection refused", len |-> 18] ] }

(* --------------------------- streaming relay -------------------------- *)
\* the generator's first step: client.stream("POST", ...) is issued
StreamStart(i) ==
  LET p == pending[i]
  IN
  /\ p.op = "chat_completion" /\ p.pc = "start"
  /\ upstream_calls' = upstream_calls + 1
  /\ pending' = [pending EXCEPT ![i] =
                   [ op |-> p.op, session |-> p.session, user |-> p.user, body |-> p.body, pc |-> "open",
                     workspace_id |-> p.workspace_id, model |-> p.model,
                     provider |-> p.provider, policy |-> p.policy,
                     user_msg_record |-> p.user_msg_record, ws_found |-> p.ws_found,
                     request |-> p.request,
                     full_content |-> <<>>, route |-> p.provider, upstream |-> p.provider,
                     actual_model |-> p.model, fallback_reason |-> "",
                     lines |-> <<>>, out |-> <<>>, elapsed_ms |-> 0, reply |-> NoReply ]]
  /\ UNCHANGED <<sso_secret, horizon, workspaces, histories, files, sent, orphans, clock,
                 next_uuid, resp>>

ErrorEvent(text) == [error |-> text]
DoneEvent == [done |-> TRUE]

\* the upstream answers the streaming call: its headers are read, its lines
\* are still to come; or the call fails
StreamConnect(i, reply) ==
  LET p == pending[i]
  IN
  /\ p.op = "chat_completion" /\ p.pc = "open"
  /\ pending' = [pending EXCEPT ![i] =
       IF reply.kind = "response"
       THEN [p EXCEPT !.pc = "lines", !.reply = reply,
                      !.route = Get(reply.headers, "x-rainymodel-route", p.provider),
                      !.upstream = Get(reply.headers, "x-rainymodel-upstream", p.provider),
                      !.actual_model = Get(reply.headers, "x-rainymodel-model", p.model),
                      !.fallback_reason = Get(reply.headers, "x-rainymodel-fallback-reason", ""),
                      !.lines = reply.lines,
                      !.elapsed_ms = reply.elapsed_ms]
       ELSE [p EXCEPT !.pc = "tail", !.reply = reply, !.out = <<ErrorEvent(reply.text)>>,
                      !.elapsed_ms = reply.elapsed_ms]]
  /\ UNCHANGED <<sso_secret, horizon, workspaces, histories, files, sent, orphans, clock,
                 next_uuid, upstream_calls, resp>>

\* one pass of `async for line in resp.aiter_lines()`
ProcessLine(p, line) ==
  IF line.kind = "reset"
  THEN \* aiter_lines raises: `except Exception`
       [p EXCEPT !.pc = "tail", !.lines = <<>>, !.out = Append(@, ErrorEvent(line.text))]
  ELSE IF ~line.data
  THEN [p EXCEPT !.lines = Tail(@)]
  ELSE IF line.kind = "done"
  THEN [p EXCEPT !.pc = "tail", !.lines = <<>>]
  ELSE IF line.kind = "garbage"
  THEN \* json.JSONDecodeError: continue
       [p EXCEPT !.lines = Tail(@)]
  ELSE IF Get(line.chunk, "choices", <<None>>) = <<>>
  THEN \* [][0] raises IndexError: `except Exception`
       [p EXCEPT !.pc = "tail", !.lines = <<>>,
                 !.out = Append(@, ErrorEvent([label |-> "list index out of range", len |-> 23]))]
  ELSE LET delta == Get(Get(line.chunk, "choices", <<None>>)[1], "delta", None)
           content == Get(delta, "content", <<>>)
       IN [p EXCEPT !.lines = Tail(@), !.full_content = @ \o content,
                    !.out = Append(@, [chunk |-> line.chunk])]

StreamLine(i) ==
  LET p == pending[i]
  IN
  /\ p.op = "chat_completion" /\ p.pc = "lines"
  /\ pending' = [pending EXCEPT ![i] =
       IF p.lines = <<>> THEN [p EXCEPT !.pc = "tail"] ELSE ProcessLine(p, Head(p.lines))]
  /\ UNCHANGED <<sso_secret, horizon, workspaces, histories, files, sent, orphans, clock,
                 next_uuid, upstream_calls, resp>>

StreamMetadata(p) ==
  [ model_requested |-> p.model, model_actual |-> p.actual_model, provider |-> p.provider,
    route |-> p.route, upstream |-> p.upstream, latency_ms |-> p.elapsed_ms,
    policy |-> p.policy, fallback_reason |-> p.fallback_reason,
    decision_chain |-> BuildDecisionChain(p.provider, p.model, p.route, p.upstream,
                                          p.actual_model, p.policy, p.fallback_reason) ]

\* the metadata event and the [DONE] sentinel are yielded
StreamTail(i) ==
  LET p == pending[i]
      out == p.out \o <<[metadata |-> StreamMetadata(p)], DoneEvent>>
  IN
  /\ p.op = "chat_completion" /\ p.pc = "tail"
  /\ pending' = [pending EXCEPT ![i] = [p EXCEPT !.pc = "store", !.out = out]]
  /\ resp' = [op |-> "chat_completion", session |-> p.session, user |-> p.user, status |-> 200, body |-> p.body,
              events |-> out]
  /\ UNCHANGED <<sso_secret, horizon, workspaces, histories, files, sent, orphans, clock,
                 next_uuid, upstream_calls>>

\* the generator is resumed after its last yield: "Store in history"
StreamStore(i) ==
  LET p == pending[i]
      m == StreamMetadata(p)
  IN
  /\ p.op = "chat_completion" /\ p.pc = "store"
  /\ clock < horizon
  /\ clock' = clock + 1
  /\ next_uuid' = next_uuid + 1
  /\ histories' = AppendToHistory(histories, p.workspace_id,
       [ id |-> UuidStr[next_uuid + 1], role |-> "assistant", content |-> p.full_content,
         timestamp |-> clock + 1, model |-> p.model, actual_model |-> p.actual_model,
         provider |-> p.provider, route |-> p.route, upstream |-> p.upstream,
         latency_ms |-> p.elapsed_ms, decision_chain |-> m.decision_chain ])
  /\ pending' = [pending EXCEPT ![i] = Idle]
  /\ UNCHANGED <<sso_secret, horizon, workspaces, files, sent, orphans, upstream_calls, resp>>

\* the caller goes away while the generator is suspended: it is never resumed
StreamDisconnect(i) ==
  /\ pending[i].op = "chat_completion" /\ pending[i].pc \in {"start", "open", "lines", "tail", "store"}
  /\ pending' = [pending EXCEPT ![i] = Idle]
  /\ UNCHANGED <<sso_secret, horizon, workspaces, histories, files, sent, orphans, clock,
                 next_uuid, upstream_calls, resp>>

\* what the upstream can answer to a streaming call
Chunk(text) == [choices |-> <<[delta |-> [content |-> <<text>>]]>>]
DataLine(chunk) == [data |-> TRUE, kind |-> "chunk", chunk |-> chunk, text |-> None]
StreamReplies ==
  { [ kind |-> "response", status |-> 200, elapsed_ms |-> 120,
      headers |-> ("x-rainymodel-route" :> "rainymodel") @@ ("x-rainymodel-upstream" :> "hf"),
      lines |-> << DataLine(Chunk("he")),
                   [data |-> TRUE, kind |-> "done", chunk |-> None, text |-> None] >>,
      text |-> None ],
    [ kind |-> "response", status |-> 500, elapsed_ms |-> 30, headers |-> None,
      lines |-> << [data |-> FALSE, kind |-> "text", chunk |-> None, text |-> None] >>,
      text |-> None ],
    [ kind |-> "error", status |-> 0, elapsed_ms |-> 5, headers |-> None, lines |-> <<>>,
      text |-> [label |-> "connection refused", len |-> 18] ] }

(* ------------------------- request payloads --------------------------- *)
CreateBodies ==
  { None,
    [ members |-> {"u2"}, model |-> "openrouter/openai/gpt-4o", provider |-> "openrouter",
      system_prompt |-> "be brief", policy |-> "premium" ] }
SmallUpdates == {[members |-> {"u2"}]}
\* the empty object, a settings key next to copied ones, and keys
\* update_workspace does not copy
UpdateBodies ==
  { None,
    [members |-> {}, system_prompt |-> "be brief", settings |-> [policy |-> "premium"]],
    [owner_id |-> "u2", settings |-> [theme |-> "dark"]] }
ClientFileIds == DOMAIN files \cup {"no-such-file"}
ChatBodies ==
  UNION { { [workspace_id |-> w, message |-> <<"hi">>],
            [workspace_id |-> w, message |-> <<"hi">>, stream |-> TRUE],
            [workspace_id |-> w, message |-> <<>>, files |-> <<>>] } : w \in ClientWsIds }
  \cup { [message |-> <<"see">>, files |-> <<f>>, provider |-> "openrouter",
          model |-> "openrouter/openai/gpt-4o"] : f \in DOMAIN files }
\* uploads on both sides of the extension check and of the size cap
\* (20971520 = 3 * 6990506 + 2), with and without a declared content type
FileUploads ==
  { [filename |-> "report.pdf", content_type |-> "application/pdf",
     contents |-> [zeros3 |-> 0, tail |-> <<77, 1>>]],
    [filename |-> "report.pdf", content_type |-> "application/pdf",
     contents |-> [zeros3 |-> 0, tail |-> <<>>]],
    [filename |-> "report.pdf", content_type |-> "application/pdf",
     contents |-> [zeros3 |-> 7340032, tail |-> <<>>]],
    [filename |-> "notes.tar.md", content_type |-> "",
     contents |-> [zeros3 |-> 0, tail |-> <<255>>]],
    [filename |-> "photo.PNG", content_type |-> "image/png",
     contents |-> [zeros3 |-> 1, tail |-> <<1, 2, 3, 250>>]],
    [filename |-> "photo.PNG", content_type |-> "image/png",
     contents |-> [zeros3 |-> 6990506, tail |-> <<9, 8>>]],
    [filename |-> "photo.PNG", content_type |-> "image/png",
     contents |-> [zeros3 |-> 6990506, tail |-> <<9, 8, 7>>]],
    [filename |-> "setup.exe", content_type |-> "",
     contents |-> [zeros3 |-> 0, tail |-> <<>>]],
    [filename |-> "setup.exe", content_type |-> "application/pdf",
     contents |-> [zeros3 |-> 7340032, tail |-> <<>>]],
    [filename |-> "README", content_type |-> "",
     contents |-> [zeros3 |-> 0, tail |-> <<1>>]] }
Uploads ==
  { [filename |-> "report.pdf", content_type |-> "application/pdf",
     contents |-> [zeros3 |-> 0, tail |-> <<77, 1>>]],
    [filename |-> "setup.exe", content_type |-> "",
     contents |-> [zeros3 |-> 0, tail |-> <<>>]],
    [filename |-> "photo.PNG", content_type |-> "image/png",
     contents |-> [zeros3 |-> 7340032, tail |-> <<>>]] }

\* the identity a session resolves to when a secret is configured
Resolved(s) == UserId(GetCurrentUser(TRUE, s.cred, s.reply))
SessionsWithSecret == Sessions(TRUE)
\* one session for each identity
EachAccount == Callers(TRUE)
\* the anonymous caller and one account
OneAccount == {s \in EachAccount : Resolved(s) \in {"anonymous", "u1"}}

(* ---------------------- the requests of one session ------------------- *)
WorkspaceRequests(s, creates) ==
  \/ ListWorkspaces(s)
  \/ \E body \in creates : CreateWorkspace(s, body)
  \/ \E ws_id \in ClientWsIds : UpdateWorkspaceCheck(s, ws_id)
  \/ \E ws_id \in ClientWsIds : DeleteWorkspace(s, ws_id)

HistoryRequests(s) ==
  \/ \E ws_id \in ClientWsIds : GetChatHistory(s, ws_id)
  \/ \E ws_id \in ClientWsIds : ClearChatHistory(s, ws_id)

ProviderRequests(s) ==
  \/ ListProviders(s)
  \/ ListModels(s)

FileRequests(s, uploads) ==
  \/ \E file \in uploads : UploadFile(s, file, "")
  \/ \E file_id \in ClientFileIds : GetFile(s, file_id)
  \/ \E file_id \in ClientFileIds : PreviewFile(s, file_id)

ChatRequests(s, bodies) == \E body \in bodies : ChatCompletion(s, body)

(* --------------- the suspended requests that are resumed -------------- *)
UpdateResumes(updates) == \E i \in Slots, body \in updates : UpdateWorkspaceWrite(i, body)

ChatResumes ==
  \/ \E i \in Slots, reply \in UpstreamReplies : ChatRespond(i, reply)
  \/ \E i \in Slots : StreamStart(i)
  \/ \E i \in Slots, reply \in StreamReplies : StreamConnect(i, reply)
  \/ \E i \in Slots : StreamLine(i)
  \/ \E i \in Slots : StreamTail(i)
  \/ \E i \in Slots : StreamStore(i)
  \/ \E i \in Slots : StreamDisconnect(i)

(* The whole gateway: every endpoint, the anonymous caller and one account,
   one request suspended at a time. *)
Request(s) ==
  \/ WorkspaceRequests(s, {None})
  \/ HistoryRequests(s)
  \/ ProviderRequests(s)
  \/ FileRequests(s, Uploads)
  \/ ChatRequests(s, ChatBodies)
Init == Start({TRUE}, MaxClock, {1})
Next ==
  \/ \E s \in OneAccount : Request(s)
  \/ UpdateResumes(SmallUpdates)
  \/ ChatResumes
Spec == Init /\ [][Next]_vars

(* The workspace and history endpoints: two accounts, one request suspended
   at a time. *)
TwoAccounts == {s \in EachAccount : Resolved(s) \in Users}
InitWorkspaces == Start({TRUE}, MaxClock, {1})
NextWorkspaces ==
  \/ \E s \in TwoAccounts : WorkspaceRequests(s, CreateBodies)
  \/ \E s \in TwoAccounts : HistoryRequests(s)
  \/ UpdateResumes(UpdateBodies)
SpecWorkspaces == InitWorkspaces /\ [][NextWorkspaces]_vars

(* The chat relay next to the endpoints that create, clear and delete what
   it appends to: two accounts, one request suspended at a time. *)
SharedWorkspace == [name |-> <<"shared">>, members |-> {"u2"}]
InitChat == Start({TRUE}, MaxClock, {1})
NextChat ==
  \/ \E s \in TwoAccounts : CreateWorkspace(s, SharedWorkspace)
  \/ \E s \in TwoAccounts, ws_id \in ClientWsIds : DeleteWorkspace(s, ws_id)
  \/ \E s \in TwoAccounts, ws_id \in ClientWsIds : ClearChatHistory(s, ws_id)
  \/ \E s \in TwoAccounts : ChatRequests(s, ChatBodies)
  \/ ChatResumes
SpecChat == InitChat /\ [][NextChat]_vars

(* The file store: the anonymous caller and one account. *)
InitFiles == Start({TRUE}, MaxClock, {1})
NextFiles == \E s \in OneAccount : FileRequests(s, FileUploads)
SpecFiles == InitFiles /\ [][NextFiles]_vars

(* The decision chain builder on its own: one call, on any of the inputs. *)
ChainProviders == {"rainymodel", "openrouter", "ollamafreeapi", "azure"}
ChainModels == {"", "rainymodel/auto", "openrouter/openai/gpt-4o", "llama3.1:8b", "my-rainymodel-ft"}
ChainUpstreams == {"hf", "ollama", "openrouter", "ollamafreeapi", "groq", ""}
BuildChainCall(provider, model_requested, route, upstream, actual_model, policy, fallback_reason) ==
  /\ resp.op = "none"
  /\ resp' = [ op |-> "_build_decision_chain", session |-> NoSession, user |-> None,
               status |-> 0,
               args |-> [ provider |-> provider, model_requested |-> model_requested,
                          route |-> route, upstream |-> upstream,
                          actual_model |-> actual_model, policy |-> policy,
                          fallback_reason |-> fallback_reason ],
               chain |-> BuildDecisionChain(provider, model_requested, route, upstream,
                                            actual_model, policy, fallback_reason) ]
  /\ UNCHANGED <<sso_secret, horizon, workspaces, histories, files, sent, orphans, pending,
                 clock, next_uuid, upstream_calls>>
InitChain == Start({TRUE}, MaxClock, {1})
NextChain ==
  \E provider \in ChainProviders, model_requested \in ChainModels,
     route \in {"rainymodel", "direct"}, upstream \in ChainUpstreams,
     actual_model \in {"llama3.1:8b", ""}, policy \in {"auto", "premium"},
     fallback_reason \in {"", "hf_timeout"} :
    BuildChainCall(provider, model_requested, route, upstream, actual_model, policy,
                   fallback_reason)
SpecChain == InitChain /\ [][NextChain]_vars

(* The life of a workspace and of its history: one account that creates,
   lists, updates, clears, deletes and chats, one request suspended at a
   time, and one more clock reading than the other specifications, so that
   a chat call on a created workspace runs to its assistant turn. *)
Owner == {s \in EachAccount : Resolved(s) = "u1"}
LifecycleChats ==
  UNION { { [workspace_id |-> w, message |-> <<"hi">>],
            [workspace_id |-> w, message |-> <<"hi">>, stream |-> TRUE] } : w \in ClientWsIds }
InitLifecycle == Start({TRUE}, MaxClock + 1, {1})
NextLifecycle ==
  \/ \E s \in Owner : ListWorkspaces(s)
  \/ \E s \in Owner : CreateWorkspace(s, None)
  \/ \E s \in Owner, ws_id \in ClientWsIds : UpdateWorkspaceCheck(s, ws_id)
  \/ \E s \in Owner, ws_id \in ClientWsIds : DeleteWorkspace(s, ws_id)
  \/ \E s \in Owner, ws_id \in ClientWsIds : ClearChatHistory(s, ws_id)
  \/ \E s \in Owner : ChatRequests(s, LifecycleChats)
  \/ UpdateResumes(SmallUpdates)
  \/ ChatResumes
SpecLifecycle == InitLifecycle /\ [][NextLifecycle]_vars

(* The session resolver behind the endpoints that need nothing but a
   session: every credential and every answer of the provider, with and
   without a configured secret. *)
InitResolver == Start({TRUE, FALSE}, MaxClock, {1})
NextResolver ==
  \E s \in Sessions(sso_secret) :
    \/ ListWorkspaces(s)
    \/ CreateWorkspace(s, None)
    \/ ProviderRequests(s)
SpecResolver == InitResolver /\ [][NextResolver]_vars

(* The login callbacks of the chat product and of the orchestration console,
   with and without a configured secret. *)
CallbackCodes == {"", "code-1", "code-2"}
InitLogin == Start({TRUE, FALSE}, MaxClock, {1})
NextLogin ==
  \E code \in CallbackCodes, state \in CallbackStates, reply \in TokenReplies :
    \/ LaminoAuthCallback(code, state, reply)
    \/ AuthCallback(code, state, reply)
SpecLogin == InitLogin /\ [][NextLogin]_vars

(* The orchestration console: its three pages and its login callback, with
   and without a configured secret. *)
InitConsole == Start({TRUE, FALSE}, MaxClock, {1})
NextConsole ==
  \/ \E page \in ConsolePages, s \in ConsoleSessions(sso_secret) : ConsolePage(page, s)
  \/ \E code \in CallbackCodes, state \in CallbackStates, reply \in TokenReplies : AuthCallback(code, state, reply)
SpecConsole == InitConsole /\ [][NextConsole]_vars

(* The chat relay on a workspace that is already in use: u1 created it
   with a model, a provider and a policy of its own, with or without a
   system prompt, and earlier calls left turns in its history.  One call
   of u1, or of u2 who is not a member, on any of the bodies, followed to
   its end. *)
RelayWsId == "uuid-0"
RelaySettings ==
  [ model |-> "openrouter/openai/gpt-4o", provider |-> "openrouter", policy |-> "premium",
    temperature |-> "0.2", max_tokens |-> 512 ]
\* the history lengths the call finds: none, and around history[-20:]
RelayLengths == {0, HistoryWindow - 1, HistoryWindow, HistoryWindow + 1}
OldIds ==
  <<"old-1", "old-2", "old-3", "old-4", "old-5", "old-6", "old-7", "old-8", "old-9", "old-10", "old-11", 
    "old-12", "old-13", "old-14", "old-15", "old-16", "old-17", "old-18", "old-19", "old-20", "old-21">>
\* the k-th turn of the earlier calls: a user turn, then its assistant turn
OldTurn(k) ==
  IF k % 2 = 1
  THEN [ id |-> OldIds[k], role |-> "user", content |-> <<"question ", OldIds[k]>>,
         files |-> <<>>, timestamp |-> k - 22, model |-> RelaySettings.model,
         provider |-> RelaySettings.provider ]
  ELSE [ id |-> OldIds[k], role |-> "assistant", content |-> <<"answer ", OldIds[k]>>,
         timestamp |-> k - 22, model |-> RelaySettings.model,
         actual_model |-> RelaySettings.model, provider |-> RelaySettings.provider,
         route |-> RelaySettings.provider, upstream |-> RelaySettings.provider,
         latency_ms |-> 120,
         decision_chain |-> BuildDecisionChain(RelaySettings.provider, RelaySettings.model,
                                               RelaySettings.provider, RelaySettings.provider,
                                               RelaySettings.model, "auto", ""),
         usage |-> [total_tokens |-> 7] ]
\* a key of the body that the caller may leave out
Absent == "(absent)"
Field(key, value) == IF value = Absent THEN None ELSE (key :> value)
\* model, provider and policy each left out, given as the default, given
\* empty (model and provider) and given as something else; then streaming
\* calls and a call without a workspace
RelayChats ==
  { [workspace_id |-> RelayWsId, message |-> <<"hi">>] @@ Field("model", model)
      @@ Field("provider", provider) @@ Field("policy", policy) :
      model \in {Absent, "", "rainymodel/auto", "rainymodel/code"},
      provider \in {Absent, "", "rainymodel", "ollamafreeapi"},
      policy \in {Absent, "auto", "free"} }
  \cup { [workspace_id |-> RelayWsId, message |-> <<"hi">>, stream |-> TRUE],
         [workspace_id |-> RelayWsId, message |-> <<"hi">>, stream |-> TRUE,
          provider |-> "ollamafreeapi", policy |-> "free"],
         [message |-> <<"hi">>] }
\* answers of the upstream beyond UpstreamReplies: a refusal with a short
\* body and a 200 whose body is not JSON
RelayReplies ==
  UpstreamReplies \cup
  { [ kind |-> "response", status |-> 429, is_json |-> TRUE, elapsed_ms |-> 10,
      headers |-> None, json |-> [error |-> "rate limited"],
      text |-> [label |-> "rate limited", len |-> 25] ],
    [ kind |-> "response", status |-> 200, is_json |-> FALSE, elapsed_ms |-> 40,
      headers |-> None, json |-> None, text |-> [label |-> "<html>", len |-> 600] ] }
InitRelay ==
  /\ sso_secret = TRUE
  /\ horizon = MaxClock
  /\ \E prompt \in {"", "be brief"}, n \in RelayLengths :
       /\ workspaces = (RelayWsId :>
            CreatedWorkspace(RelayWsId, "u1", [sub |-> "u1", name |-> "Ann"],
                             [name |-> <<"relay">>, system_prompt |-> prompt] @@ RelaySettings,
                             -22))
       /\ histories = (RelayWsId :> [k \in 1 .. n |-> OldTurn(k)])
  /\ files = EmptyMap
  /\ sent = EmptyMap
  /\ orphans = EmptyMap
  /\ pending = [i \in {1} |-> Idle]
  /\ clock = 0
  /\ next_uuid = 0
  /\ upstream_calls = 0
  /\ resp = [op |-> "none", session |-> NoSession, user |-> None, status |-> 0]
\* the one call
RelayCall(s, body) == clock = 0 /\ resp.op = "none" /\ ChatCompletion(s, body)
NextRelay ==
  \/ \E s \in TwoAccounts, body \in RelayChats : RelayCall(s, body)
  \/ \E i \in Slots, reply \in RelayReplies : ChatRespond(i, reply)
  \/ \E i \in Slots : StreamStart(i)
  \/ \E i \in Slots, reply \in StreamReplies : StreamConnect(i, reply)
  \/ \E i \in Slots : StreamLine(i)
  \/ \E i \in Slots : StreamTail(i)
  \/ \E i \in Slots : StreamStore(i)
  \/ \E i \in Slots : StreamDisconnect(i)
SpecRelay == InitRelay /\ [][NextRelay]_vars

(* The streaming relay on the same workspace: one streaming call, followed
   event by event over every way the upstream can answer it. *)
TextLine == [data |-> FALSE, kind |-> "text", chunk |-> None, text |-> None]
DoneLine == [data |-> TRUE, kind |-> "done", chunk |-> None, text |-> None]
GarbageLine == [data |-> TRUE, kind |-> "garbage", chunk |-> None, text |-> None]
ResetLine == [data |-> FALSE, kind |-> "reset", chunk |-> None, text |-> [label |-> "peer closed connection", len |-> 22]]
\* a chunk that opens the answer with a role and no text, and one that
\* carries no choice (a usage or content-filter report)
RoleChunk == [choices |-> <<[delta |-> [role |-> "assistant"]]>>]
NoChoiceChunk == [choices |-> <<>>, usage |-> [total_tokens |-> 7]]
StreamHeaders == ("x-rainymodel-route" :> "rainymodel") @@ ("x-rainymodel-upstream" :> "hf")
StreamOf(status, headers, lines) ==
  [kind |-> "response", status |-> status, elapsed_ms |-> 120, headers |-> headers, lines |-> lines, text |-> None]
\* a clean stream with a comment line in it and a chunk after the sentinel; a
\* stream with a line that is not JSON; one with a chunk without a choice;
\* one that breaks off; one that ends without its sentinel; a refusal whose
\* body is not an event stream; and a call that cannot connect
StreamScripts ==
  { StreamOf(200, StreamHeaders, <<DataLine(RoleChunk), DataLine(Chunk("he")), TextLine, DataLine(Chunk("llo")), DoneLine, DataLine(Chunk("late"))>>),
    StreamOf(200, StreamHeaders, <<DataLine(Chunk("he")), GarbageLine, DataLine(Chunk("llo")), DoneLine>>),
    StreamOf(200, StreamHeaders, <<DataLine(Chunk("he")), DataLine(NoChoiceChunk), DataLine(Chunk("llo")), DoneLine>>),
    StreamOf(200, None, <<DataLine(Chunk("he")), ResetLine>>),
    StreamOf(200, None, <<DataLine(Chunk("he"))>>),
    StreamOf(500, None, <<TextLine>>),
    StreamOf(429, None, <<TextLine, TextLine>>),
    [ kind |-> "error", status |-> 0, elapsed_ms |-> 5, headers |-> None, lines |-> <<>>,
      text |-> [label |-> "connection refused", len |-> 18] ] }
StreamChats == {body \in RelayChats : Get(body, "stream", FALSE)}
InitStream == InitRelay
NextStream ==
  \/ \E s \in TwoAccounts, body \in StreamChats : RelayCall(s, body)
  \/ \E i \in Slots : StreamStart(i)
  \/ \E i \in Slots, reply \in StreamScripts : StreamConnect(i, reply)
  \/ \E i \in Slots : StreamLine(i)
  \/ \E i \in Slots : StreamTail(i)
  \/ \E i \in Slots : StreamStore(i)
  \/ \E i \in Slots : StreamDisconnect(i)
SpecStream == InitStream /\ [][NextStream]_vars

(* One chat call of any caller, with any credential and any answer of the
   provider, on the same workspace, followed to its end over every answer
   of the upstream. *)
AttemptChats ==
  { [workspace_id |-> RelayWsId, message |-> <<"hi">>],
    [workspace_id |-> RelayWsId, message |-> <<"hi">>, stream |-> TRUE] }
InitAttempts == InitRelay
NextAttempts ==
  \/ \E s \in SessionsWithSecret, body \in AttemptChats : RelayCall(s, body)
  \/ \E i \in Slots, reply \in RelayReplies : ChatRespond(i, reply)
  \/ \E i \in Slots : StreamStart(i)
  \/ \E i \in Slots, reply \in StreamScripts : StreamConnect(i, reply)
  \/ \E i \in Slots : StreamLine(i)
  \/ \E i \in Slots : StreamTail(i)
  \/ \E i \in Slots : StreamStore(i)
  \/ \E i \in Slots : StreamDisconnect(i)
SpecAttempts == InitAttempts /\ [][NextAttempts]_vars

(* Chat calls that overlap: the owner of the same workspace, its history
   empty, sends calls of which two can wait for the upstream at the same
   time, with two more clock readings than the other specifications, so
   that two calls run to their assistant turns. *)
ConcurrentChats ==
  { [workspace_id |-> RelayWsId, message |-> <<"hi">>, model |-> "rainymodel/code"],
    [workspace_id |-> RelayWsId, message |-> <<"hi">>, model |-> "llama3.1:8b", stream |-> TRUE] }
ConcurrentStreams == {r \in StreamReplies : r.status \in {0, 200}}
ConcurrentReplies == {r \in UpstreamReplies : r.kind = "response"}
InitConcurrent ==
  /\ sso_secret = TRUE
  /\ horizon = MaxClock + 2
  /\ workspaces = (RelayWsId :>
       CreatedWorkspace(RelayWsId, "u1", [sub |-> "u1", name |-> "Ann"],
                        [name |-> <<"relay">>] @@ RelaySettings, -22))
  /\ histories = (RelayWsId :> <<>>)
  /\ files = EmptyMap
  /\ sent = EmptyMap
  /\ orphans = EmptyMap
  /\ pending = [i \in {1, 2} |-> Idle]
  /\ clock = 0
  /\ next_uuid = 0
  /\ upstream_calls = 0
  /\ resp = [op |-> "none", session |-> NoSession, user |-> None, status |-> 0]
NextConcurrent ==
  \/ \E s \in Owner : ChatRequests(s, ConcurrentChats)
  \/ \E i \in Slots, reply \in ConcurrentReplies : ChatRespond(i, reply)
  \/ \E i \in Slots : StreamStart(i)
  \/ \E i \in Slots, reply \in ConcurrentStreams : StreamConnect(i, reply)
  \/ \E i \in Slots : StreamLine(i)
  \/ \E i \in Slots : StreamTail(i)
  \/ \E i \in Slots : StreamStore(i)
  \/ \E i \in Slots : StreamDisconnect(i)
SpecConcurrent == InitConcurrent /\ [][NextConcurrent]_vars

(* Updates in flight: u1 owns the same workspace and u2 is a member of it;
   the updates of both wait at their body read, two at a time, while the
   other caller updates or deletes. *)
InFlightUpdates == {[members |-> {}], [name |-> <<"renamed">>]}
InitInFlight ==
  /\ sso_secret = TRUE
  /\ horizon = MaxClock
  /\ workspaces = (RelayWsId :>
       CreatedWorkspace(RelayWsId, "u1", [sub |-> "u1", name |-> "Ann"],
                        [name |-> <<"relay">>, members |-> {"u2"}] @@ RelaySettings, -22))
  /\ histories = (RelayWsId :> <<>>)
  /\ files = EmptyMap
  /\ sent = EmptyMap
  /\ orphans = EmptyMap
  /\ pending = [i \in {1, 2} |-> Idle]
  /\ clock = 0
  /\ next_uuid = 0
  /\ upstream_calls = 0
  /\ resp = [op |-> "none", session |-> NoSession, user |-> None, status |-> 0]
NextInFlight ==
  \/ \E s \in TwoAccounts : UpdateWorkspaceCheck(s, RelayWsId)
  \/ UpdateResumes(InFlightUpdates)
  \/ \E s \in TwoAccounts : DeleteWorkspace(s, RelayWsId)
SpecInFlight == InitInFlight /\ [][NextInFlight]_vars

(* A chat call in flight: u2, a member of the same workspace, chats; while
   the call waits for the upstream, u1, the owner, clears the history or
   takes u2 out of the members. *)
Member == {s \in EachAccount : Resolved(s) = "u2"}
InFlightChats ==
  { [workspace_id |-> RelayWsId, message |-> <<"hi">>],
    [workspace_id |-> RelayWsId, message |-> <<"hi">>, stream |-> TRUE] }
InitOverlap == InitInFlight
NextOverlap ==
  \/ \E s \in Member : ChatRequests(s, InFlightChats)
  \/ \E s \in Owner : ClearChatHistory(s, RelayWsId)
  \/ \E s \in Owner : UpdateWorkspaceCheck(s, RelayWsId)
  \/ UpdateResumes({[members |-> {}]})
  \/ \E i \in Slots, reply \in ConcurrentReplies : ChatRespond(i, reply)
  \/ \E i \in Slots : StreamStart(i)
  \/ \E i \in Slots, reply \in ConcurrentStreams : StreamConnect(i, reply)
  \/ \E i \in Slots : StreamLine(i)
  \/ \E i \in Slots : StreamTail(i)
  \/ \E i \in Slots : StreamStore(i)
  \/ \E i \in Slots : StreamDisconnect(i)
SpecOverlap == InitOverlap /\ [][NextOverlap]_vars

\* a request that carries no token, or a token the provider does not vouch for
NoValidSession(s) ==
  \/ RequestToken(s.cred) = ""
  \/ s.reply.kind # "response"
  \/ s.reply.status # 200

\* the resolver returns no user for any session that is not valid
ResolverRejects ==
  \A s \in SessionsWithSecret :
    NoValidSession(s) => Falsy(GetCurrentUser(TRUE, s.cred, s.reply))

\* C1: no request without a valid session resolves to a user, and a request
\* without a valid session, on any endpoint, is answered 401 and leaves the
\* stores, the suspended requests and the count of upstream calls as they were.
C1_UnauthenticatedRejected ==
  [][/\ ResolverRejects
     /\ (resp' # resp /\ NoValidSession(resp'.session)) =>
          /\ resp'.status = 401
          /\ UNCHANGED <<workspaces, histories, files, orphans, pending, upstream_calls>>]_vars
\* a 401 was answered while the stores held a workspace and a file
C1_Witness ==
  /\ resp.status = 401
  /\ DOMAIN workspaces # {}
  /\ DOMAIN files # {}
\* C2: in every store the gateway reaches, list_workspaces by a user who owns
\* no workspace and is a member of none returns exactly one workspace, the
\* default one with the id derived from the user id and owned by the user;
\* called again it returns the same workspace and stores nothing more; and
\* the store never holds a default workspace of a user under another id.
C2_DefaultWorkspaceIdempotent ==
  \A s \in TwoAccounts :
    LET user == GetCurrentUser(sso_secret, s.cred, s.reply)
        uid == UserId(user)
        name == Get(user, "name", "User")
        first == Listed(workspaces, uid, name, clock + 1)
        after == ListedStore(workspaces, uid, name, clock + 1)
        second == Listed(after, uid, name, clock + 2)
        DefaultIds == {DefaultWsId(u) : u \in Users}
    IN /\ Visible(workspaces, uid) = {} =>
            /\ Cardinality(first) = 1
            /\ \A ws \in first : ws.id = DefaultWsId(uid) /\ ws.owner_id = uid
            /\ second = first
            /\ ListedStore(after, uid, name, clock + 2) = after
       /\ {id \in DOMAIN workspaces \cap DefaultIds : workspaces[id].owner_id = uid}
            \subseteq {DefaultWsId(uid)}
\* list_workspaces answered a user with the default workspace it had just
\* stored for that user, while another user had none
C2_Witness ==
  /\ resp.op = "list_workspaces" /\ resp.status = 200
  /\ LET uid == UserId(resp.user)
     IN /\ DefaultWsId(uid) \in DOMAIN workspaces
        /\ resp.workspaces = {workspaces[DefaultWsId(uid)]}
        /\ workspaces[DefaultWsId(uid)].created_at = clock
  /\ \E u \in Users : Visible(workspaces, u) = {}
\* the last response is a successful update_workspace that left every field
\* outside `stamped` and absent from the payload as it was, and merged the
\* payload's settings into the stored ones key by key
UpdateKeeps(stamped) ==
  (resp.op = "update_workspace" /\ resp.status = 200) =>
    LET old == resp.before
        new == resp.workspace
        put == Get(resp.body, "settings", None)
    IN /\ DOMAIN new = DOMAIN old
       /\ \A k \in DOMAIN old \ stamped : k \notin DOMAIN resp.body => new[k] = old[k]
       /\ DOMAIN new.settings = DOMAIN old.settings \cup DOMAIN put
       /\ \A k \in DOMAIN new.settings :
            new.settings[k] = IF k \in DOMAIN put THEN put[k] ELSE old.settings[k]

\* C3 (as stated): a successful update_workspace leaves every field absent
\* from the payload as it was and merges settings key by key.
C3_AbsentFieldsKept == UpdateKeeps({})
\* C3 (amended): a successful update_workspace leaves every field absent from
\* the payload, other than updated_at, as it was and merges settings key by
\* key; updated_at is written by every update.
C3_AbsentFieldsKeptButStamp == UpdateKeeps({"updated_at"})
\* an update whose payload carried one settings key was written to the store
C3_Witness ==
  /\ resp.op = "update_workspace" /\ resp.status = 200
  /\ resp.ws_id \in DOMAIN workspaces /\ workspaces[resp.ws_id] = resp.workspace
  /\ "settings" \in DOMAIN resp.body
  /\ DOMAIN resp.body.settings # DOMAIN resp.before.settings
  /\ "name" \notin DOMAIN resp.body
\* a chat call with an empty message and no attached file
EmptyCall(body) == Get(body, "message", <<>>) = <<>> /\ Get(body, "files", <<>>) = <<>>

\* C4: a chat call of an authenticated caller with an empty message and no
\* attached file is answered 400 in a step that appends to no history, issues
\* no upstream call and suspends nothing; no such call ever waits for the
\* upstream.
C4_EmptyCallRejected ==
  [][/\ (resp' # resp /\ resp'.op = "chat_completion" /\ EmptyCall(resp'.body)) =>
          /\ resp'.status = 400
          /\ UNCHANGED <<workspaces, histories, files, pending, upstream_calls, clock>>
     /\ \A i \in Slots :
          pending'[i].op = "chat_completion" => ~EmptyCall(pending'[i].body)]_vars
\* an empty call was answered 400 while a history held a turn
C4_Witness ==
  /\ resp.op = "chat_completion" /\ resp.status = 400 /\ EmptyCall(resp.body)
  /\ \E ws_id \in DOMAIN histories : histories[ws_id] # <<>>
InHistory(hist, ws_id, record) ==
  ws_id \in DOMAIN hist /\ \E k \in 1 .. Len(hist[ws_id]) : hist[ws_id][k] = record
IsPrefix(short, long) == Len(short) <= Len(long) /\ SubSeq(long, 1, Len(short)) = short
\* this step suspends, in slot i, a chat call that named a stored workspace
ChatBegins(i) ==
  pending[i].op = "idle" /\ pending'[i].op = "chat_completion" /\ pending'[i].ws_found
\* this step ends the upstream call of the chat call in slot i in a failure:
\* a non-200 answer, a timeout or a transport error
UpstreamFails(i) ==
  /\ pending[i].op = "chat_completion" /\ pending[i].ws_found
  /\ \/ pending[i].pc = "upstream" /\ pending'[i].op = "idle" /\ resp'.status # 200
     \/ /\ pending[i].pc \in {"open", "lines"}
        /\ pending'[i].op = "chat_completion" /\ pending'[i].pc = "tail"
        /\ \E k \in 1 .. Len(pending'[i].out) : "error" \in DOMAIN pending'[i].out[k]
\* the step in which chat_completion takes a call on a stored workspace
\* appends the user turn, and issues the upstream call (non-streaming) or
\* leaves it to the generator (streaming)
UserTurnAppendedFirst ==
  \A i \in Slots :
    ChatBegins(i) =>
      LET p == pending'[i]
      IN /\ p.user_msg_record.role = "user"
         /\ p.user_msg_record.content = Get(p.body, "message", <<>>)
         /\ p.workspace_id \in DOMAIN histories
         /\ histories' = [histories EXCEPT ![p.workspace_id] = Append(@, p.user_msg_record)]
         /\ upstream_calls' = IF p.pc = "upstream" THEN upstream_calls + 1 ELSE upstream_calls

\* C5 (as stated): the user turn is appended before the upstream call is
\* issued and is in the history when the upstream call fails.
C5_UserTurnInHistoryAtFailure ==
  [][/\ UserTurnAppendedFirst
     /\ \A i \in Slots :
          UpstreamFails(i) =>
            InHistory(histories', pending[i].workspace_id, pending[i].user_msg_record)]_vars
\* C5 (amended): the user turn is appended before the upstream call is
\* issued; the failure of the upstream call leaves every history as it is;
\* and a step shortens a history only if it is a clear_chat_history or a
\* delete_workspace of that workspace.
C5_UserTurnKeptUnlessCleared ==
  [][/\ UserTurnAppendedFirst
     /\ \A i \in Slots : UpstreamFails(i) => UNCHANGED histories
     /\ \A ws_id \in DOMAIN histories :
          \/ ws_id \in DOMAIN histories' /\ IsPrefix(histories[ws_id], histories'[ws_id])
          \/ \E s \in TwoAccounts : ClearChatHistory(s, ws_id) \/ DeleteWorkspace(s, ws_id)]_vars
\* an upstream failure was reported for a call whose user turn is in the
\* history of the workspace it named
C5_Witness ==
  /\ resp.op = "chat_completion" /\ resp.status \in {500, 502, 504}
  /\ \E ws_id \in DOMAIN histories :
       /\ Get(resp.body, "workspace_id", "") = ws_id
       /\ \E k \in 1 .. Len(histories[ws_id]) :
            /\ histories[ws_id][k].role = "user"
            /\ histories[ws_id][k].content = resp.body.message
AllowList == ALLOWED_EXTENSIONS.image \cup ALLOWED_EXTENSIONS.document
\* C6: an upload of an authenticated caller whose extension is not in the
\* allow-list is answered with the type error whatever its size, one with an
\* allowed extension and more than 20 MiB with the size error, both without
\* a change to the file store; and every stored file has an allowed
\* extension and a size, that of its stored bytes, within the cap.
C6_UploadValidated ==
  [][/\ (resp' # resp /\ resp'.op = "upload_file" /\ resp'.status # 401) =>
          LET ext == SplitExtLower(resp'.upload.filename)
              size == ByteLen(resp'.upload.contents)
          IN /\ ext \notin AllowList =>
                  /\ resp'.status = 400
                  /\ resp'.detail = <<"File type ", ext, " not supported">>
                  /\ UNCHANGED files
             /\ (ext \in AllowList /\ size > 20 * 1024 * 1024) =>
                  /\ resp'.status = 400
                  /\ resp'.detail = <<"File too large (max 20MB)">>
                  /\ UNCHANGED files
     /\ \A id \in DOMAIN files' :
          /\ files'[id].extension \in AllowList
          /\ files'[id].size <= 20 * 1024 * 1024
          /\ files'[id].size = ByteLen(B64Decode(files'[id].data_b64))]_vars
\* a 21 MiB upload with an allowed extension was refused while a file was stored
C6_Witness ==
  /\ resp.op = "upload_file" /\ resp.status = 400
  /\ resp.detail = <<"File too large (max 20MB)">>
  /\ DOMAIN files # {}

\* C7: the bytes get_file decodes from any stored file are the bytes that
\* were uploaded under its id, and its media type is the content type
\* declared at upload (application/octet-stream when none was declared);
\* the last get_file response carries exactly these.
C7_RawFetchRoundTrip ==
  /\ DOMAIN files = DOMAIN sent
  /\ \A id \in DOMAIN files :
       /\ B64Decode(files[id].data_b64) = sent[id].contents
       /\ files[id].content_type =
            IF sent[id].content_type # "" THEN sent[id].content_type
            ELSE "application/octet-stream"
  /\ (resp.op = "get_file" /\ resp.status = 200) =>
       /\ resp.file_id \in DOMAIN sent
       /\ resp.content = sent[resp.file_id].contents
       /\ resp.media_type = files[resp.file_id].content_type
\* a file whose length is not a multiple of three was fetched after another
\* upload had been stored
C7_Witness ==
  /\ resp.op = "get_file" /\ resp.status = 200
  /\ Len(resp.content.tail) % 3 # 0
  /\ \E id \in DOMAIN files : files[id].uploaded_at > files[resp.file_id].uploaded_at
\* C8: the chain _build_decision_chain returns starts with "User Request",
\* ends with "Model: {actual_model}" and numbers its steps 1..n; when the
\* provider is rainymodel or the requested model id contains "rainymodel" it
\* has four steps, the second the router and the third the upstream, named
\* from the table or by its id, with the fallback annotated exactly when a
\* fallback reason is given; otherwise it has three, the second the provider.
C8_DecisionChainShape ==
  resp.op = "_build_decision_chain" =>
    LET a == resp.args
        chain == resp.chain
        n == Len(chain)
        routed == \/ a.provider = "rainymodel"
                  \/ \E k \in 1 .. Len(Chars(a.model_requested)) - 9 :
                       SubSeq(Chars(a.model_requested), k, k + 9) = Chars("rainymodel")
        table == [ hf |-> "HuggingFace Router", ollama |-> "Ollama (Self-hosted)",
                   openrouter |-> "OpenRouter (Premium)",
                   ollamafreeapi |-> "OllamaFreeAPI (Free)" ]
    IN /\ chain[1].node = <<"User Request">>
       /\ chain[n].node = <<"Model: ", a.actual_model>>
       /\ \A k \in 1 .. n : chain[k].step = k
       /\ IF routed
          THEN /\ n = 4
               /\ chain[2].type = "router" /\ chain[2].node = <<"RainyModel Router">>
               /\ chain[3].type = "upstream"
               /\ chain[3].node = <<IF a.upstream \in DOMAIN table THEN table[a.upstream]
                                     ELSE a.upstream>>
               /\ chain[3].detail =
                    IF a.fallback_reason # ""
                    THEN <<"Upstream: ", a.upstream, ", Fallback: ", a.fallback_reason>>
                    ELSE <<"Upstream: ", a.upstream>>
          ELSE /\ n = 3
               /\ chain[2].type = "provider"
               /\ chain[2].detail = <<"Direct provider call">>
\* a chain was built for a direct provider and a model id that names the
\* router, with an upstream outside the table and a fallback reason
C8_Witness ==
  /\ resp.op = "_build_decision_chain"
  /\ resp.args.provider = "openrouter" /\ resp.args.model_requested = "my-rainymodel-ft"
  /\ resp.args.upstream = "groq" /\ resp.args.fallback_reason = "hf_timeout"
  /\ Len(resp.chain) = 4
\* C9: update_workspace, delete_workspace, get_chat_history and
\* clear_chat_history, called by an authenticated user, answer 404 for an id
\* that is not in the store and 403 for a stored workspace of which the
\* caller is neither the owner nor (but for delete) a member, without a
\* change to the stores; and update_workspace goes on to read its body only
\* for a stored workspace of which the caller is the owner or a member.
C9_NotFoundOrForbidden ==
  [][/\ ( /\ resp' # resp /\ resp'.status # 401 /\ UNCHANGED pending
          /\ resp'.op \in {"update_workspace", "delete_workspace", "get_chat_history",
                           "clear_chat_history"} ) =>
          LET ws_id == resp'.ws_id
              uid == UserId(resp'.user)
              related ==
                \/ workspaces[ws_id].owner_id = uid
                \/ resp'.op # "delete_workspace" /\ uid \in workspaces[ws_id].members
          IN IF ws_id \notin DOMAIN workspaces
             THEN resp'.status = 404 /\ UNCHANGED <<workspaces, histories, files>>
             ELSE IF ~related
             THEN resp'.status = 403 /\ UNCHANGED <<workspaces, histories, files>>
             ELSE resp'.status = 200
     /\ \A i \in Slots :
          (pending[i].op = "idle" /\ pending'[i].op = "update_workspace") =>
            LET ws_id == pending'[i].ws_id
                uid == UserId(pending'[i].user)
            IN /\ ws_id \in DOMAIN workspaces
               /\ workspaces[ws_id].owner_id = uid \/ uid \in workspaces[ws_id].members]_vars
\* a member who is not the owner was refused the delete of a stored workspace
C9_Witness ==
  /\ resp.op = "delete_workspace" /\ resp.status = 403
  /\ resp.ws_id \in DOMAIN workspaces
  /\ UserId(resp.user) \in workspaces[resp.ws_id].members

\* C10: a step takes a workspace out of the store only if it is a successful
\* delete_workspace of that workspace by its owner, and such a step takes
\* the history of the workspace out with it.
C10_OnlyOwnerDeletes ==
  [][\A ws_id \in DOMAIN workspaces :
       /\ ws_id \notin DOMAIN workspaces' =>
            /\ resp'.op = "delete_workspace" /\ resp'.status = 200 /\ resp'.ws_id = ws_id
            /\ UserId(resp'.user) = workspaces[ws_id].owner_id
            /\ ws_id \notin DOMAIN histories'
       /\ ( /\ resp' # resp /\ resp'.op = "delete_workspace" /\ resp'.status = 200
            /\ resp'.ws_id = ws_id ) =>
            ws_id \notin DOMAIN workspaces' /\ ws_id \notin DOMAIN histories']_vars
\* the owner deleted a workspace whose history held the user turn of a chat
\* call that is still waiting
C10_Witness ==
  /\ resp.op = "delete_workspace" /\ resp.status = 200
  /\ resp.ws_id \notin DOMAIN workspaces /\ resp.ws_id \notin DOMAIN histories
  /\ \E i \in Slots :
       /\ pending[i].op = "chat_completion" /\ pending[i].ws_found
       /\ pending[i].workspace_id = resp.ws_id

\* C11: in every state the life of a workspace reaches, every key of the
\* history map is a key of the workspace store; and the step that resumes a
\* suspended update, chat call or stream adds no key to either and removes
\* none, whether or not the workspace it was started on is still stored.
C11_HistoryKeysAreWorkspaces ==
  [][/\ DOMAIN histories' \subseteq DOMAIN workspaces'
     /\ \A i \in Slots :
          (pending[i].op # "idle" /\ pending'[i] # pending[i]) =>
            /\ DOMAIN workspaces' = DOMAIN workspaces
            /\ DOMAIN histories' = DOMAIN histories]_vars
\* a chat call was answered by the upstream, and reached its assistant turn,
\* after the workspace it had been started on was deleted
C11_Witness ==
  /\ resp.op = "chat_completion" /\ resp.status = 200 /\ "response" \in DOMAIN resp
  /\ Get(resp.body, "workspace_id", "") \notin {"", "no-such-id"}
  /\ resp.body.workspace_id \notin DOMAIN workspaces

\* C12: a step that is neither a clear_chat_history nor a delete_workspace
\* of a workspace leaves the history of that workspace in place and only
\* extends it at its end: the history before the step is a prefix of the
\* history after it.
C12_HistoryAppendOnly ==
  [][\A ws_id \in DOMAIN histories :
       \/ ws_id \in DOMAIN histories' /\ IsPrefix(histories[ws_id], histories'[ws_id])
       \/ \E s \in Owner : ClearChatHistory(s, ws_id) \/ DeleteWorkspace(s, ws_id)]_vars
\* a history holds a user turn followed by the assistant turn of the same call
C12_Witness ==
  \E ws_id \in DOMAIN histories :
    /\ Len(histories[ws_id]) >= 2
    /\ histories[ws_id][1].role = "user" /\ histories[ws_id][2].role = "assistant"
    /\ histories[ws_id][2].timestamp > histories[ws_id][1].timestamp

\* C13 (as stated): with no secret configured, every request is resolved to
\* the development identity, whatever token it carries and also when it
\* carries none.
C13_DevModeAlwaysResolves ==
  (~sso_secret /\ resp.op # "none") => (resp.user = DevUser /\ resp.status # 401)

\* C14: with a secret configured, a request is resolved to a user only if the
\* provider answered its token with status 200, and the user is then the
\* body of that answer; a request whose token the provider answered with
\* another status, or failed to answer, is answered 401 with no user.
C14_ResolvedOnlyOn200 ==
  (sso_secret /\ resp.op # "none") =>
    LET reply == resp.session.reply
    IN /\ ~Falsy(resp.user) =>
            /\ reply.kind = "response" /\ reply.status = 200
            /\ resp.user = reply.json
            /\ resp.user # DevUser
       /\ (reply.kind = "error" \/ (reply.kind = "response" /\ reply.status # 200)) =>
            /\ Falsy(resp.user)
            /\ resp.status = 401
\* a request was refused because the provider could not be reached, for a
\* token under which a workspace had been created before
C14_Witness ==
  /\ sso_secret
  /\ resp.status = 401 /\ resp.session.reply.kind = "error"
  /\ \E id \in DOMAIN workspaces, r \in IdpReplies(RequestToken(resp.session.cred)) :
       r.status = 200 /\ workspaces[id].owner_id = r.json.sub

\* C15 (as stated): a chat call that gives a non-empty workspace id appends
\* its user turn and goes to the upstream only if the caller is the owner or
\* a member of that workspace, and a call that is refused with 403 has
\* appended nothing and issued no upstream call.
C15_ChatRequiresAccess ==
  [][/\ \A i \in Slots :
          ( /\ pending[i].op = "idle" /\ pending'[i].op = "chat_completion"
            /\ pending'[i].workspace_id # "" ) =>
            LET ws_id == pending'[i].workspace_id
                uid == UserId(pending'[i].user)
            IN /\ ws_id \in DOMAIN workspaces
               /\ workspaces[ws_id].owner_id = uid \/ uid \in workspaces[ws_id].members
     /\ (resp' # resp /\ resp'.op = "chat_completion" /\ resp'.status = 403) =>
          UNCHANGED <<histories, pending, upstream_calls>>]_vars

\* the exchange the last callback made was answered 200 with a non-empty
\* access token
ExchangeSucceeded ==
  /\ resp.exchanged
  /\ resp.args.reply.kind = "response" /\ resp.args.reply.status = 200
  /\ Get(resp.args.reply.json, "access_token", "") # ""

\* C16 (as stated): a login callback sets the session cookie only when the
\* exchange was answered 200 with a non-empty access token, and then
\* redirects to the returnTo of the state (to its own default when the state
\* carries none); after every exchange that failed it sets no cookie and
\* redirects to a URL of the provider.
C16_CallbackCookieAndRedirect ==
  resp.op \in {"lamino_auth_callback", "auth_callback"} =>
    LET default == IF resp.op = "auth_callback" THEN "/orchestration" ELSE "/lamino"
        carried == IF resp.args.state.kind = "object" /\ "returnTo" \in DOMAIN resp.args.state.data
                   THEN resp.args.state.data.returnTo ELSE default
    IN /\ resp.set_cookie # NoCookie =>
            /\ ExchangeSucceeded
            /\ resp.set_cookie.value = resp.args.reply.json.access_token
            /\ resp.status = 302 /\ resp.location = <<carried>>
       /\ (resp.exchanged /\ ~ExchangeSucceeded) =>
            /\ resp.set_cookie = NoCookie
            /\ resp.status = 302
            /\ Len(resp.location) > 1 /\ resp.location[1] = SSO_ISSUER

\* this step takes a chat call past its checks and suspends it in slot i
ChatAccepted(i) == pending[i].op = "idle" /\ pending'[i].op = "chat_completion"
\* the workspace a chat body names, when it is stored
NamedWorkspace(body) ==
  IF Get(body, "workspace_id", "") \in DOMAIN workspaces THEN workspaces[body.workspace_id]
  ELSE None

\* C17: the message list of every chat call that is sent on is the system
\* prompt of the workspace, if and only if that is not empty, then the last
\* min(20, n) of the n entries the history held before the call, as role and
\* content and in their order, then the new user turn; it has at most 22
\* elements, and the new user turn enters the history after the list is built.
C17_UpstreamMessages ==
  [][\A i \in Slots :
       ChatAccepted(i) =>
         LET p == pending'[i]
             ws_id == p.workspace_id
             prompt == Get(NamedWorkspace(p.body), "system_prompt", "")
             hist == IF ws_id \in DOMAIN histories THEN histories[ws_id] ELSE <<>>
             n == Len(hist)
             m == IF n < 20 THEN n ELSE 20
             sys == IF prompt # "" THEN 1 ELSE 0
             messages == p.request.json.messages
         IN /\ Len(messages) = sys + m + 1
            /\ Len(messages) <= 22
            /\ sys = 1 => messages[1] = [role |-> "system", content |-> <<prompt>>]
            /\ \A k \in 1 .. m :
                 messages[sys + k] = [ role |-> hist[n - m + k].role,
                                       content |-> hist[n - m + k].content ]
            /\ messages[sys + m + 1] = [role |-> "user", content |-> p.body.message]
            /\ ws_id \in DOMAIN histories =>
                 /\ histories'[ws_id] = Append(hist, p.user_msg_record)
                 /\ p.user_msg_record.content = p.body.message]_vars
\* a call on a history of 21 entries in a workspace with a system prompt is
\* waiting with a list of 22 messages
C17_Witness ==
  \E i \in Slots :
    /\ pending[i].op = "chat_completion"
    /\ Len(pending[i].request.json.messages) = 22
    /\ pending[i].request.json.messages[1].role = "system"
    /\ Len(histories[pending[i].workspace_id]) = 22

\* the model (provider, when `key` is "provider") a chat call is served
\* with: the workspace's when the body leaves it out, gives it empty or gives
\* the default, the body's otherwise
Served(body, key, sentinel) ==
  IF Get(body, key, sentinel) \in {"", sentinel} THEN NamedWorkspace(body)[key]
  ELSE body[key]

\* C18: a chat call on a workspace the caller may use is sent on with, and
\* its user turn is recorded with, the workspace's model when the body gives
\* "rainymodel/auto", an empty model or none, and the body's model otherwise;
\* likewise the provider, with "rainymodel"; the upstream URL is that of the
\* provider so chosen; and the assistant turn of the call records the same
\* model and provider.
C18_SentinelsTakeWorkspaceChoice ==
  [][\A i \in Slots :
       /\ (ChatAccepted(i) /\ pending'[i].ws_found) =>
            LET p == pending'[i]
                model == Served(p.body, "model", "rainymodel/auto")
                provider == Served(p.body, "provider", "rainymodel")
                turn == histories'[p.workspace_id][Len(histories'[p.workspace_id])]
            IN /\ p.request.json.model = model
               /\ p.request.url[1] = ORCEST_PROVIDERS[provider].base_url
               /\ turn.role = "user" /\ turn.model = model /\ turn.provider = provider
       /\ ( /\ pending[i].op = "chat_completion" /\ pending[i].ws_found
            /\ pending'[i].op = "idle"
            /\ Len(histories'[pending[i].workspace_id]) > Len(histories[pending[i].workspace_id]) ) =>
            LET p == pending[i]
                turn == histories'[p.workspace_id][Len(histories'[p.workspace_id])]
            IN /\ turn.role = "assistant"
               /\ turn.model = Served(p.body, "model", "rainymodel/auto")
               /\ turn.provider = Served(p.body, "provider", "rainymodel")]_vars
\* a call that gave an empty model and a provider of its own was answered,
\* and its assistant turn records the workspace's model and the body's
\* provider
C18_Witness ==
  /\ resp.op = "chat_completion" /\ resp.status = 200
  /\ Get(resp.body, "model", "?") = "" /\ Get(resp.body, "provider", "?") = "ollamafreeapi"
  /\ LET hist == histories[resp.body.workspace_id]
     IN /\ hist[Len(hist)].role = "assistant"
        /\ hist[Len(hist)].model = workspaces[resp.body.workspace_id].model
        /\ hist[Len(hist)].model # "rainymodel/auto"
        /\ hist[Len(hist)].provider = "ollamafreeapi"

\* C19 (as stated): a chat call on a workspace the caller may use that gives
\* the policy "auto" or none is sent on with the policy stored in the
\* workspace's settings in its header, and a 200 answer reports that policy.
C19_PolicyFromWorkspace ==
  [][\A i \in Slots :
       /\ ( /\ ChatAccepted(i) /\ pending'[i].ws_found
            /\ Get(pending'[i].body, "policy", "auto") = "auto" ) =>
            pending'[i].request.headers.XRainyModelPolicy =
              workspaces[pending'[i].workspace_id].settings.policy
       /\ ( /\ pending[i].op = "chat_completion" /\ pending[i].ws_found
            /\ Get(pending[i].body, "policy", "auto") = "auto"
            /\ pending[i].workspace_id \in DOMAIN workspaces
            /\ pending'[i].op = "idle" /\ "metadata" \in DOMAIN resp' ) =>
            resp'.metadata.policy = workspaces[pending[i].workspace_id].settings.policy]_vars

\* C20: when the upstream call of a non-streaming chat call fails, the caller
\* gets an error that names the provider and the model of the call, and no
\* history changes: a status other than 200 is passed on with the first 500
\* characters of the body, a timeout is answered 504, and a transport
\* failure or a 200 that cannot be read is answered 502.
C20_UpstreamFailureReported ==
  [][\A i \in Slots :
       ( /\ pending[i].op = "chat_completion" /\ pending[i].pc = "upstream"
         /\ pending'[i].op = "idle" ) =>
         LET p == pending[i]
             r == resp'.reply
             failed == r.kind # "response" \/ r.status # 200 \/ ~r.is_json
         IN failed =>
              /\ UNCHANGED histories
              /\ DOMAIN resp'.content = {"error", "provider", "model"}
              /\ resp'.content.provider = p.user_msg_record.provider
              /\ resp'.content.model = p.user_msg_record.model
              /\ resp'.status = IF r.kind = "timeout" THEN 504
                                ELSE IF r.kind = "response" /\ r.status # 200 THEN r.status
                                ELSE 502
              /\ (r.kind = "response" /\ r.status # 200) =>
                   /\ resp'.content.error.label = r.text.label
                   /\ resp'.content.error.len = IF r.text.len < 500 THEN r.text.len ELSE 500]_vars
\* a status 500 with a body of 900 characters was passed on with 500 of them,
\* and the history ends with the user turn of the call
C20_Witness ==
  /\ resp.op = "chat_completion" /\ resp.status = 500
  /\ resp.reply.text.len = 900 /\ resp.content.error.len = 500
  /\ Get(resp.body, "workspace_id", "") \in DOMAIN histories
  /\ LET hist == histories[resp.body.workspace_id]
     IN Len(hist) > 20 /\ hist[Len(hist)].role = "user" /\ hist[Len(hist)].timestamp = clock

\* an upstream line that is a well-formed event: a data line that parses and
\* has a usable first choice
WellFormed(line) ==
  line.data /\ line.kind = "chunk" /\ Get(line.chunk, "choices", <<None>>) # <<>>
\* the lines of an answer before its sentinel, or before it breaks off
RECURSIVE BeforeEnd(_)
BeforeEnd(lines) ==
  IF lines = <<>> \/ Head(lines).kind \in {"done", "reset"} THEN <<>>
  ELSE <<Head(lines)>> \o BeforeEnd(Tail(lines))
\* the events a caller is owed for a sequence of upstream lines
Relayed(lines) ==
  LET good == SelectSeq(lines, WellFormed)
  IN [k \in 1 .. Len(good) |-> [chunk |-> good[k].chunk]]
\* the text of a sequence of upstream lines
RECURSIVE TextOf(_)
TextOf(lines) ==
  IF lines = <<>> THEN <<>>
  ELSE (IF WellFormed(Head(lines))
        THEN Get(Get(Head(lines).chunk.choices[1], "delta", None), "content", <<>>)
        ELSE <<>>) \o TextOf(Tail(lines))
\* the upstream call failed in transport: it did not connect, or broke off
TransportError(reply) ==
  reply.kind # "response" \/ \E k \in 1 .. Len(reply.lines) : reply.lines[k].kind = "reset"
ErrorEvents(out) == SelectSeq(out, LAMBDA e : "error" \in DOMAIN e)
MetadataEvents(out) == SelectSeq(out, LAMBDA e : "metadata" \in DOMAIN e)

\* C21 (as stated): while a streaming call reads its upstream, the events
\* given to the caller are the well-formed events read so far, in their
\* order; the finished stream is those up to the sentinel, then an error
\* event if and only if the call failed in transport, then one metadata
\* event, then the [DONE] sentinel; and a history changes only in the step
\* after the sentinel, which appends the accumulated text once and ends the
\* call.
C21_StreamEventOrder ==
  [][\A i \in Slots :
       /\ (pending'[i].op = "chat_completion" /\ pending'[i].pc = "lines") =>
            LET p == pending'[i]
                read == SubSeq(p.reply.lines, 1, Len(p.reply.lines) - Len(p.lines))
            IN p.out = Relayed(read)
       /\ (pending'[i].op = "chat_completion" /\ pending'[i].pc = "store") =>
            LET p == pending'[i]
                n == Len(p.out)
            IN /\ n >= 2 /\ p.out[n] = DoneEvent /\ DOMAIN p.out[n - 1] = {"metadata"}
               /\ Len(MetadataEvents(p.out)) = 1
               /\ SubSeq(p.out, 1, n - 2) =
                    Relayed(BeforeEnd(p.reply.lines)) \o
                    (IF TransportError(p.reply) THEN ErrorEvents(p.out) ELSE <<>>)
               /\ Len(ErrorEvents(p.out)) = IF TransportError(p.reply) THEN 1 ELSE 0
       /\ (pending[i].op = "chat_completion" /\ histories' # histories /\ pending'[i] # pending[i]) =>
            LET p == pending[i]
                hist == histories[p.workspace_id]
            IN /\ p.pc = "store" /\ p.out[Len(p.out)] = DoneEvent
               /\ pending'[i].op = "idle"
               /\ Len(histories'[p.workspace_id]) = Len(hist) + 1
               /\ SubSeq(histories'[p.workspace_id], 1, Len(hist)) = hist
               /\ histories'[p.workspace_id][Len(hist) + 1].role = "assistant"
               /\ histories'[p.workspace_id][Len(hist) + 1].content = p.full_content]_vars

\* C22 (as stated): when the upstream answers a streaming call and does not
\* break off, a line that is not JSON, or that has no first choice, is
\* passed over: the caller gets every well-formed event up to the sentinel
\* and no error event, and the accumulated text is the text of those events.
C22_MalformedEventsSkipped ==
  \A i \in Slots :
    ( /\ pending[i].op = "chat_completion" /\ pending[i].pc \in {"tail", "store"}
      /\ ~TransportError(pending[i].reply) ) =>
      LET p == pending[i]
          upto == BeforeEnd(p.reply.lines)
      IN /\ SelectSeq(p.out, LAMBDA e : "chunk" \in DOMAIN e) = Relayed(upto)
         /\ ErrorEvents(p.out) = <<>>
         /\ p.full_content = TextOf(upto)

\* the fields of the metadata of a non-streaming answer, and of the
\* assistant turn the non-streaming path appends
MetadataFields ==
  { "model_requested", "model_actual", "provider", "route", "upstream", "latency_ms",
    "policy", "fallback_reason", "decision_chain", "usage", "timestamp" }
AssistantFields ==
  { "id", "role", "content", "timestamp", "model", "actual_model", "provider", "route",
    "upstream", "latency_ms", "decision_chain", "usage" }

\* C23 (as stated): the metadata of a non-streaming answer and the metadata
\* event of a stream carry the same eleven fields, and every assistant turn
\* in a history, whichever path appended it, has the twelve fields of the
\* non-streaming one.
C23_SameMetadataBundle ==
  /\ (resp.op = "chat_completion" /\ "metadata" \in DOMAIN resp) =>
       DOMAIN resp.metadata = MetadataFields
  /\ (resp.op = "chat_completion" /\ "events" \in DOMAIN resp) =>
       /\ Len(MetadataEvents(resp.events)) = 1
       /\ DOMAIN MetadataEvents(resp.events)[1].metadata = MetadataFields
  /\ \A ws_id \in DOMAIN histories :
       \A k \in 1 .. Len(histories[ws_id]) :
         histories[ws_id][k].role = "assistant" => DOMAIN histories[ws_id][k] = AssistantFields

UpstreamFailed(reply) == reply.kind # "response" \/ reply.status # 200

\* C25 (as stated): a non-streaming chat call whose upstream call failed is
\* answered with a status other than 200 and an error payload, and the
\* finished stream of a streaming chat call whose upstream call failed holds
\* an error event.
C25_UpstreamFailureShown ==
  /\ ( /\ resp.op = "chat_completion" /\ "reply" \in DOMAIN resp
       /\ UpstreamFailed(resp.reply) ) =>
       resp.status # 200 /\ "error" \in DOMAIN resp.content
  /\ \A i \in Slots :
       ( /\ pending[i].op = "chat_completion" /\ pending[i].pc = "store"
         /\ UpstreamFailed(pending[i].reply) ) =>
         ErrorEvents(pending[i].out) # <<>>

\* C26 (as stated): a console page is served when no secret is configured,
\* whatever token the request carries, and when a secret is configured and
\* the provider verifies the token of the request; every other request is
\* redirected to the provider's authorize URL, whose state decodes to the
\* requested page as returnTo.
C26_ConsoleServedOrRedirected ==
  resp.op = "console_page" =>
    LET reply == resp.session.reply
        verified == /\ reply.kind = "response" /\ reply.status = 200
                    /\ Get(reply.json, "valid", FALSE)
    IN IF ~sso_secret \/ verified
       THEN resp.status = 200
       ELSE /\ resp.status = 302
            /\ Len(resp.location) = 8
            /\ resp.location[1] = SSO_ISSUER /\ resp.location[2] = "/oauth2/authorize?client_id="
            /\ DecodeState(resp.location[8]) = [returnTo |-> resp.page]

\* this step ends the chat call in slot i with its assistant turn: the
\* upstream's 200 was read (non-streaming), or the generator ran past its
\* last yield (streaming)
ChatCompletes(i) ==
  /\ pending[i].op = "chat_completion" /\ pending'[i].op = "idle"
  /\ \/ pending[i].pc = "upstream" /\ resp'.status = 200
     \/ pending[i].pc = "store" /\ clock' # clock
\* the positions of a record in a history
Positions(hist, record) == {k \in 1 .. Len(hist) : hist[k] = record}

\* C27: the user turn of a chat call is appended at the end of the history
\* as it is when the call is taken, and its assistant turn at the end of the
\* history as it is when the call completes, wherever the user turn of the
\* call then stands: the turns of a call that overlaps lie in between.
C27_TurnsAppendedAsTheyCome ==
  [][\A i \in Slots :
       /\ ChatAccepted(i) =>
            histories'[RelayWsId] = Append(histories[RelayWsId], pending'[i].user_msg_record)
       /\ ChatCompletes(i) =>
            LET hist == histories[RelayWsId]
                turn == histories'[RelayWsId][Len(hist) + 1]
            IN /\ Len(histories'[RelayWsId]) = Len(hist) + 1
               /\ SubSeq(histories'[RelayWsId], 1, Len(hist)) = hist
               /\ turn.role = "assistant" /\ turn.model = pending[i].model
               /\ Positions(hist, pending[i].user_msg_record) # {}]_vars
\* the history is user turn 1, user turn 2, the assistant turn of call 2,
\* the assistant turn of call 1
C27_Witness ==
  LET hist == histories[RelayWsId]
  IN /\ Len(hist) = 4
     /\ hist[1].role = "user" /\ hist[2].role = "user"
     /\ hist[3].role = "assistant" /\ hist[4].role = "assistant"
     /\ hist[1].model # hist[2].model
     /\ hist[3].model = hist[2].model /\ hist[4].model = hist[1].model
     /\ hist[1].timestamp < hist[2].timestamp /\ hist[3].timestamp < hist[4].timestamp

\* C28: with no clear and no delete, no step takes an entry out of the
\* history or moves one; the history holds one entry for every id that was
\* drawn, each once; and the step that completes a call finds the user turn
\* of the call in the history exactly once and appends the assistant turn
\* after it, exactly once.
C28_NoAppendLostOrDuplicated ==
  [][/\ IsPrefix(histories[RelayWsId], histories'[RelayWsId])
     /\ Len(histories'[RelayWsId]) = next_uuid'
     /\ \A j, k \in 1 .. Len(histories'[RelayWsId]) :
          histories'[RelayWsId][j].id = histories'[RelayWsId][k].id => j = k
     /\ \A i \in Slots :
          /\ ChatAccepted(i) =>
               Cardinality(Positions(histories'[RelayWsId], pending'[i].user_msg_record)) = 1
          /\ ChatCompletes(i) =>
               LET own == Positions(histories'[RelayWsId], pending[i].user_msg_record)
                   last == Len(histories'[RelayWsId])
               IN /\ Cardinality(own) = 1
                  /\ \A k \in own : k < last
                  /\ Len(histories'[RelayWsId]) = Len(histories[RelayWsId]) + 1
                  /\ histories'[RelayWsId][last].role = "assistant"
                  /\ histories'[RelayWsId][last].id = UuidStr[next_uuid']]_vars
\* two calls that overlapped have both completed: the history holds their
\* two user turns and their two assistant turns
C28_Witness ==
  LET hist == histories[RelayWsId]
  IN /\ \A i \in Slots : pending[i].op = "idle"
     /\ Len(hist) = 4
     /\ Cardinality({k \in 1 .. 4 : hist[k].role = "user"}) = 2
     /\ hist[2].role = "user" /\ hist[2].timestamp = 2
     /\ hist[4].role = "assistant" /\ hist[4].model # hist[3].model

\* C29 (as stated): the step in which a suspended update_workspace reads its
\* body and writes finds the workspace in the store, and its caller the
\* owner or a member of it.
C29_UpdateWritesWithAccess ==
  [][\A i \in Slots :
       (pending[i].op = "update_workspace" /\ pending'[i].op = "idle") =>
         LET ws_id == pending[i].ws_id
             uid == UserId(pending[i].user)
         IN /\ ws_id \in DOMAIN workspaces
            /\ workspaces[ws_id].owner_id = uid \/ uid \in workspaces[ws_id].members]_vars

\* C30 (as stated): the step that appends the assistant turn of a chat call
\* finds the user turn of that call in the history, before the place of the
\* assistant turn; and in every state every assistant turn of a history has
\* a user turn before it.
C30_AssistantAfterItsUserTurn ==
  [][/\ \A i \in Slots :
          (ChatCompletes(i) /\ histories' # histories) =>
            LET after == histories'[pending[i].workspace_id]
                own == Positions(after, pending[i].user_msg_record)
            IN own # {} /\ \A k \in own : k < Len(after)
     /\ \A ws_id \in DOMAIN histories' :
          \A k \in 1 .. Len(histories'[ws_id]) :
            histories'[ws_id][k].role = "assistant" =>
              \E j \in 1 .. k - 1 : histories'[ws_id][j].role = "user"]_vars
====
